---- MODULE Spec2Model ----
(***************************************************************************)
(* A model of the host / transport / tool-registry / conversation core of  *)
(* mcp-review.  Three specifications share the module:                     *)
(*   SpecConv       ConversationManager.runReview against a ToolRegistry   *)
(*   SpecTransport  one StdioTransport and its child process               *)
(*   SpecHost       MCPHost.initialize / shutdown over the tool servers    *)
(***************************************************************************)
EXTENDS Integers, Sequences, FiniteSets, TLC

VARIABLES
    \* ---- ConversationManager.runReview (src/host/conversation.ts)
    pc,              \* position of runReview
    messages,        \* the Anthropic.MessageParam[] of the session
    response,        \* the provider response being handled
    toolRounds,      \* let toolRounds
    turnNumber,      \* let turnNumber: provider calls issued so far
    requests,        \* history: the parameters of every provider call
    toolTasks,       \* the promises of the current round's toolUseBlocks.map(...)
    completionOrder, \* history: indexes of toolTasks in the order they settled
    callToolLog,     \* history: every ToolRegistry.callTool invocation
    thrown,          \* what runReview rejected with, or "none"
    blocksIssued,    \* tool_use blocks the provider has produced so far
    \* ---- ToolRegistry (src/host/tool-registry.ts)
    servers,         \* Map<string, ToolServer>
    toolToServer,    \* Map<string, string>
    \* ---- StdioTransport (src/host/transport.ts) and its child process
    process,         \* this.process: "null" or "live"
    messageId,       \* this.messageId
    pendingRequests, \* this.pendingRequests: id -> the request() call that waits
    calls,           \* the promise of every request() call made so far
    timers,          \* ids whose setTimeout has not fired yet
    childInbox,      \* requests the child has read and not answered
    wire,            \* lines the child has written that handleData has not seen
    events,          \* number of 'notification' and 'error' events emitted
    notified,        \* notifications the child has written so far
    started,         \* start() has been called
    timedOut,        \* history: calls whose timer fired while they were pending
    abandoned,       \* history: calls pending at a stop() -> their settle count then
    settleOrder,     \* history: calls in the order their promise was settled
    dropped,         \* history: calls whose response handleMessage found no entry for
    spawnResult,     \* what spawn() did in start(): "none", "ok", "error" or "threw"
    startPromise,    \* the promise start() returned: "none", "pending", "resolved", "rejected"
    startQueue,      \* callbacks of start() that have not run yet: "error", "timer"
    \* ---- MCPHost (src/host/mcp-host.ts) and the tool-server children it spawns
    initialized,     \* this.initialized
    transports,      \* this.transports
    initPc,          \* "running" while an initialize() call awaits Promise.allSettled
    shutPc,          \* "stopping" while a shutdown() call awaits toolRegistry.shutdown()
    serverTask,      \* per server: position of its TOOL_SERVERS.map callback
    childProcess,    \* per server: the child its current transport spawned
    leaked,          \* children of earlier initialize() calls that are still alive
    initCalls,       \* initialize() calls that went past the initialized test
    shutdownCompleted, \* history: a shutdown() has returned and no initialize() followed
    overlapped,      \* history: an initialize() was in flight during the latest shutdown()
    tokensUsed,      \* this.tokensUsed
    lastCall,        \* history: the MCPHost method an awaiting caller called last
    hostThrown,      \* history: the error that call failed with, or "none"
    delegated,       \* history: that call invoked ConversationManager.runReview
    \* ---- ToolRegistry used directly: its cache and the record of its calls
    toolCache,       \* the in-memory tool-result cache: <<name, arguments>> -> result
    regCalls,        \* history: every callTool invocation and what became of it
    registryOp,      \* history: "shutdown" right after a shutdown(), else "other"
    stopTargets,     \* history: transports registered when that shutdown() was called
    stopCalls,       \* history: transports whose stop() that shutdown() invoked
    stopFailures,    \* history: transports whose stop() rejected in that shutdown()
    \* ---- StdioTransport: the child's output streams and handleData
    buffer,          \* this.buffer
    stdoutPipe,      \* characters the child has written to stdout, not yet read
    stderrPipe,      \* writes of the child to stderr, not yet read
    errorListeners,  \* listeners registered for the transport's 'error' event
    uncaught,        \* an exception left a 'data' listener: the host process ended
    linesWritten,    \* lines the child has written to stdout so far
    received,        \* history: every character handleData was given so far
    handled,         \* history: the lines handleMessage was called with
    errorEvents,     \* history: 'error' events delivered to a listener
    stderrSeen,      \* history: stderr 'data' events handled so far
    \* ---- ConversationManager.runReview, one step per provider call
    sessionPc,       \* position of runReview
    sessionTurn,     \* let turnNumber
    sessionRounds,   \* let toolRounds
    tracker,         \* const tracker = createUsageTracker(...): its two totals
    usageLog,        \* history: the usage reported by every provider response
    finalResponse,   \* the response that ended the loop, or NoResponse
    reviewResult,    \* the ReviewResult runReview returned, or NoResult
    sessionThrown,   \* what runReview rejected with, or "none"
    \* ---- ConversationManager.runReview: truncation, pre-load, initial prompt
    promptPc,        \* "start", "truncated", "preloaded" or "built"
    diffIn,          \* prefetched.diff, a sequence of characters
    maxTokens,       \* the token budget truncateDiff is called with
    truncated,       \* const truncated = truncateDiff(...)
    fileContents,    \* let fileContents
    focus,           \* this.options.focus
    prompt,          \* the content of the first user message
    \* ---- one provider call with its rate-limit retry loop
    adapter,         \* whose loop: "anthropic", "openai" or "conversation"
    retryPc,         \* "idle", "calling", "waiting", "returned" or "threw"
    attempt,         \* let attempt
    attemptsMade,    \* history: requests sent to the vendor API by this call
    replyLog,        \* history: the replies of the vendor API, in order
    delays,          \* history: the delayMs of every wait
    \* -- the token budget of one MCPHost, seen by a caller of its getters --
    budgetCalls,     \* number of addTokenUsage calls made
    budgetQueried,   \* TRUE when the getters were read after the last change
    budgetRemaining, \* what getTokenBudgetRemaining() returned
    budgetLow,       \* what isTokenBudgetLow() returned
    \* -- watch mode: the repository and the loop of createReviewer.watch --
    headHash,        \* the commit that is HEAD (commits are numbered as they land)
    landed,          \* history: the commits that became HEAD while the watcher ran
    running,         \* the flag that cleanup (SIGINT) clears
    watchPc,         \* "poll", "debounce", "reviewing" or "stopped"
    lastReviewedHash,
    hashAfterDebounce,
    reviewLog,       \* history: one record for every review the loop made
    \* -- the child of a transport, for the requests that must end --
    childExited,     \* TRUE once the child process has exited
    \* -- the handshake of MCPHost.initialize with every tool server --
    hsPc,            \* per server: where its callback of initialize() stands
    wireLog,         \* per server: what was sent to it and what it answered
    hsCalls,         \* number of callTool invocations made
    \* -- one call of Reviewer.review --
    reviewPc,        \* "idle", "fetching", "try", "runReview", "cacheReview",
                     \* "finally", "shutdown", "returned" or "threw"
    rangeType,       \* "staged" or "range"
    cacheHolds,      \* TRUE when the review cache holds this diff
    members,         \* the promises given to Promise.all
    initStarted,     \* TRUE once host.initialize() was called
    shutdownCalls,   \* number of host.shutdown() calls made by review()
    reviewError,     \* what review() threw
    \* -- one ToolRegistry whose callers register any name under any server --
    lastRegistrant,  \* history: per tool name, the server of its latest registration
    dispatch         \* history: what a callTool made in this state of the maps did

convVars == <<pc, messages, response, toolRounds, turnNumber, requests,
              toolTasks, completionOrder, callToolLog, thrown, blocksIssued>>
registryVars == <<servers, toolToServer>>
transportVars == <<process, messageId, pendingRequests, calls, timers, childInbox,
                   wire, events, notified, started, timedOut, abandoned, settleOrder,
                   dropped, spawnResult, startPromise, startQueue>>
hostVars == <<initialized, transports, initPc, shutPc, serverTask, childProcess, leaked,
              initCalls, shutdownCompleted, overlapped>>
callVars == <<tokensUsed, lastCall, hostThrown, delegated>>
registryLog == <<toolCache, regCalls, stopTargets, stopCalls, stopFailures, registryOp>>
streamVars == <<buffer, stdoutPipe, stderrPipe, errorListeners, uncaught, linesWritten,
                received, handled, errorEvents, stderrSeen>>
sessionVars == <<sessionPc, sessionTurn, sessionRounds, tracker, usageLog,
                 finalResponse, reviewResult, sessionThrown>>
promptVars == <<promptPc, diffIn, maxTokens, truncated, fileContents, focus, prompt>>
retryVars == <<adapter, retryPc, attempt, attemptsMade, replyLog, delays>>
budgetVars == <<budgetCalls, budgetQueried, budgetRemaining, budgetLow>>
watchVars == <<headHash, landed, running, watchPc, lastReviewedHash, hashAfterDebounce,
               reviewLog>>
exitVars == <<childExited>>
handshakeVars == <<hsPc, wireLog, hsCalls>>
reviewVars == <<reviewPc, rangeType, cacheHolds, members, initStarted, shutdownCalls,
                reviewError>>
ownerVars == <<lastRegistrant, dispatch>>
vars == <<convVars, registryVars, transportVars, hostVars, callVars, registryLog,
          streamVars, sessionVars, promptVars, retryVars, budgetVars, watchVars,
          exitVars, handshakeVars, reviewVars, ownerVars>>

\* what the actions of one component leave alone
laterVars ==
    <<streamVars, sessionVars, promptVars, retryVars, budgetVars, watchVars, exitVars,
      handshakeVars, reviewVars, ownerVars>>
convFrame == <<registryVars, transportVars, hostVars, callVars, registryLog, laterVars>>
transportFrame == <<convVars, registryVars, hostVars, callVars, registryLog, laterVars>>
callHistory == <<lastCall, hostThrown, delegated>>
hostFrame == <<convVars, transportVars, callHistory, registryLog, laterVars>>
registryFrame == <<convVars, transportVars, hostVars, callVars, laterVars>>

----------------------------------------------------------------------------
\* Bounds of the model

\* the provider is called at most this many times in one modelled session
MaxProviderCalls == 4
\* the provider produces at most this many tool_use blocks in one session
MaxToolUses == 3
\* request() is called at most this many times on the modelled transport
MaxRequests == 2
\* the child writes at most this many notifications
MaxNotifications == 1
\* initialize() goes past its initialized test at most this many times
MaxInitializes == 2
\* addTokenUsage() is called only while the counter stays within this value
MaxTokensUsed == 2
\* callTool() is invoked at most this many times on the modelled registry
MaxToolCalls == 2

----------------------------------------------------------------------------
\* ToolRegistry

NullTransport == "null"
Undefined == "undefined"

\* getAvailableTools(): the capabilities of every server record, flattened
RECURSIVE Flatten(_)
Flatten(ss) ==
    IF ss = <<>> THEN <<>> ELSE Head(ss) \o Flatten(Tail(ss))

\* the server names in Map insertion order are kept in the record's "order" field
RECURSIVE ServerSeq(_, _)
ServerSeq(reg, names) ==
    IF names = {} THEN <<>>
    ELSE LET n == CHOOSE x \in names : \A y \in names : reg[x].order <= reg[y].order
         IN  <<reg[n].capabilities>> \o ServerSeq(reg, names \ {n})

getAvailableTools(reg) == Flatten(ServerSeq(reg, DOMAIN reg))

\* callTool without its unknown-tool test: the request goes out regardless
callToolRouteNoUnknownTest(reg, index, name) ==
    IF name \notin DOMAIN index
    THEN [kind |-> "request", server |-> Undefined]
    ELSE LET serverName == index[name] IN
         IF serverName \notin DOMAIN reg
         THEN [kind |-> "result", content |-> "Server not found", isError |-> "true"]
         ELSE IF reg[serverName].transport = NullTransport
         THEN [kind |-> "result", content |-> "placeholder", isError |-> Undefined]
         ELSE [kind |-> "request", server |-> serverName]

\* callTool up to the point where it either returns or awaits the transport
callToolRoute(reg, index, name) ==
    IF name \notin DOMAIN index
    THEN [kind |-> "result", content |-> "Unknown tool", isError |-> "true"]
    ELSE LET serverName == index[name] IN
         IF serverName \notin DOMAIN reg
         THEN [kind |-> "result", content |-> "Server not found", isError |-> "true"]
         ELSE IF reg[serverName].transport = NullTransport
         THEN [kind |-> "result", content |-> "placeholder", isError |-> Undefined]
         ELSE [kind |-> "request", server |-> serverName]

\* what transport.request('tools/call') can do to its caller
TransportOutcomes == {"result", "resultIsError", "reject"}

\* a catch block that turns the failure into an error-flagged result
callToolSettleReturnsError(serverName, outcome) ==
    [kind |-> "result", content |-> "text",
     isError |-> IF outcome = "result" THEN Undefined ELSE "true"]

\* callTool after the await: the response's text and error flag, or the
\* ToolServerError thrown from the catch block
callToolSettle(serverName, outcome) ==
    IF outcome = "reject"
    THEN [kind |-> "throw", error |-> "ToolServerError", serverName |-> serverName]
    ELSE [kind |-> "result", content |-> "text",
          isError |-> IF outcome = "resultIsError" THEN "true" ELSE Undefined]

----------------------------------------------------------------------------
\* StdioTransport

NoCalls == <<>>
EmptyMap == <<>>

\* Map.delete(id)
mapDelete(m, id) == [k \in DOMAIN m \ {id} |-> m[k]]

\* Map.set(id, v)
mapSet(m, id, v) == [k \in DOMAIN m \cup {id} |-> IF k = id THEN v ELSE m[k]]

\* the id counter left where it was
nextIdReused(mid) == IF mid = 0 THEN 1 ELSE mid

\* const id = ++this.messageId
nextId(mid) == mid + 1

\* resolve(...) or reject(...) of the promise of call c: only the first one
\* settles it, every invocation is counted
settle(cs, c, outcome, reason, msg) ==
    [cs EXCEPT ![c].settleCalls = @ + 1,
               ![c].outcome = IF @ = "pending" THEN outcome ELSE @,
               ![c].reason = IF cs[c].outcome = "pending" THEN reason ELSE @,
               ![c].respId = IF cs[c].outcome = "pending" THEN msg.id ELSE @,
               ![c].respFor = IF cs[c].outcome = "pending" THEN msg.forCall ELSE @]

NoMessage == [kind |-> "none", id |-> 0, forCall |-> 0, error |-> FALSE]

\* a response handed to the oldest pending request instead of the one it names
handleMessageOldestPending(msg, st) ==
    IF msg.kind = "response"
    THEN IF DOMAIN st.pendingRequests # {}
         THEN LET id == CHOOSE k \in DOMAIN st.pendingRequests :
                           \A j \in DOMAIN st.pendingRequests : k <= j
                  c == st.pendingRequests[id]
              IN  [st EXCEPT !.pendingRequests = mapDelete(@, id),
                             !.calls = settle(@, c, "resolved", "result", msg),
                             !.settled = <<c>>]
         ELSE st
    ELSE [st EXCEPT !.events = @ + 1]

\* a response that settles its request and leaves the entry in the map
handleMessageKeepsEntry(msg, st) ==
    IF msg.kind = "response"
    THEN IF msg.id \in DOMAIN st.pendingRequests
         THEN LET c == st.pendingRequests[msg.id] IN
              [st EXCEPT !.calls = IF msg.error
                                   THEN settle(@, c, "rejected", "error response", msg)
                                   ELSE settle(@, c, "resolved", "result", msg),
                         !.settled = <<c>>]
         ELSE st
    ELSE [st EXCEPT !.events = @ + 1]

\* handleMessage(line) for a line that parses: st holds the fields it may change
handleMessage(msg, st) ==
    IF msg.kind = "response"
    THEN IF msg.id \in DOMAIN st.pendingRequests
         THEN LET c == st.pendingRequests[msg.id] IN
              [st EXCEPT !.pendingRequests = mapDelete(@, msg.id),
                         !.calls = IF msg.error
                                   THEN settle(@, c, "rejected", "error response", msg)
                                   ELSE settle(@, c, "resolved", "result", msg),
                         !.settled = <<c>>]
         ELSE st
    ELSE [st EXCEPT !.events = @ + 1]

\* the timer callback without its has(id) test
onTimeoutUnguarded(id, c, st) ==
    [st EXCEPT !.pendingRequests = mapDelete(@, id),
               !.calls = settle(@, c, "rejected", "timeout", NoMessage),
               !.settled = <<c>>]

\* the timer callback rejecting without deleting the entry
onTimeoutKeepsEntry(id, c, st) ==
    IF id \in DOMAIN st.pendingRequests
    THEN [st EXCEPT !.calls = settle(@, c, "rejected", "timeout", NoMessage),
                    !.settled = <<c>>]
    ELSE st

\* the timer callback deleting the entry without rejecting
onTimeoutDeletesOnly(id, c, st) ==
    IF id \in DOMAIN st.pendingRequests
    THEN [st EXCEPT !.pendingRequests = mapDelete(@, id)]
    ELSE st

\* the setTimeout callback of call c, which allocated id
onTimeout(id, c, st) ==
    IF id \in DOMAIN st.pendingRequests
    THEN [st EXCEPT !.pendingRequests = mapDelete(@, id),
                    !.calls = settle(@, c, "rejected", "timeout", NoMessage),
                    !.settled = <<c>>]
    ELSE st

transportState ==
    [pendingRequests |-> pendingRequests, calls |-> calls, events |-> events,
     settled |-> <<>>]

TransportIdle ==
    /\ process = "null"
    /\ messageId = 0
    /\ pendingRequests = EmptyMap
    /\ calls = NoCalls
    /\ timers = {}
    /\ childInbox = {}
    /\ wire = {}
    /\ events = 0
    /\ notified = 0
    /\ started = FALSE
    /\ timedOut = {}
    /\ abandoned = EmptyMap
    /\ settleOrder = <<>>
    /\ dropped = {}
    /\ spawnResult = "none"
    /\ startPromise = "none"
    /\ startQueue = {}

\* the part of the transport that start() and its callbacks do not touch
startFrame ==
    <<messageId, pendingRequests, calls, timers, childInbox, wire, events, notified,
      timedOut, abandoned, settleOrder, dropped, transportFrame>>

\* what spawn() can do: start the child, fail with an 'error' event on the
\* next tick (ENOENT, EACCES, ...), or throw inside the promise executor
SpawnOutcomes == {"ok", "error", "threw"}

\* resolve / reject of the promise of start(): the first settlement stands
settleStart(promise, outcome) ==
    IF promise = "pending" THEN outcome ELSE promise

\* the 'error' event of a failed spawn is emitted on the next tick, so its
\* handler runs before the callback of setTimeout(resolve, 100)
timerMayFire(queue) == "error" \notin queue

\* start(): spawn the child, keep its handle, register the handlers and arm
\* the 100 ms timer (a transport is started once)
Start ==
    /\ ~started
    /\ started' = TRUE
    /\ \E o \in SpawnOutcomes :
          /\ spawnResult' = o
          /\ process' = IF o = "threw" THEN process ELSE "live"
          /\ startPromise' = IF o = "threw" THEN "rejected" ELSE "pending"
          /\ startQueue' = CASE o = "ok" -> {"timer"}
                              [] o = "error" -> {"error", "timer"}
                              [] OTHER -> {}
    /\ UNCHANGED startFrame

\* an 'error' handler that does not reject the promise
SpawnErrorIgnored ==
    /\ "error" \in startQueue
    /\ startQueue' = startQueue \ {"error"}
    /\ UNCHANGED <<process, started, spawnResult, startPromise, startFrame>>

\* this.process.on('error', (error) => reject(error))
SpawnError ==
    /\ "error" \in startQueue
    /\ startQueue' = startQueue \ {"error"}
    /\ startPromise' = settleStart(startPromise, "rejected")
    /\ UNCHANGED <<process, started, spawnResult, startFrame>>

\* setTimeout(resolve, 100)
StartTimer ==
    /\ "timer" \in startQueue
    /\ timerMayFire(startQueue)
    /\ startQueue' = startQueue \ {"timer"}
    /\ startPromise' = settleStart(startPromise, "resolved")
    /\ UNCHANGED <<process, started, spawnResult, startFrame>>

\* request(method, params): allocate the id, register the continuation, send,
\* arm the timer.  send() throws inside the promise executor when there is no
\* process: the promise is rejected and the timer is never armed.
Request ==
    /\ Len(calls) < MaxRequests
    /\ LET id == nextId(messageId)
           c == Len(calls) + 1
           call == [id |-> id, outcome |-> "pending", reason |-> "", respId |-> 0,
                    respFor |-> 0, settleCalls |-> 0, sent |-> process = "live",
                    afterTimeout |-> timedOut # {}]
       IN  /\ messageId' = id
           /\ pendingRequests' = mapSet(pendingRequests, id, c)
           /\ IF process = "live"
              THEN /\ calls' = Append(calls, call)
                   /\ childInbox' = childInbox \cup {[id |-> id, forCall |-> c]}
                   /\ timers' = timers \cup {[id |-> id, call |-> c]}
                   /\ UNCHANGED settleOrder
              ELSE /\ calls' = settle(Append(calls, call), c, "rejected",
                                      "Transport not started", NoMessage)
                   /\ settleOrder' = Append(settleOrder, c)
                   /\ UNCHANGED <<childInbox, timers>>
    /\ UNCHANGED <<process, wire, events, notified, started, timedOut, abandoned,
                   dropped, spawnResult, startPromise, startQueue, transportFrame>>

\* the child answers a request it has read, with a result or with an error
ChildRespond ==
    /\ spawnResult = "ok"
    /\ \E req \in childInbox, isErr \in BOOLEAN :
          /\ childInbox' = childInbox \ {req}
          /\ wire' = wire \cup {[kind |-> "response", id |-> req.id,
                                 forCall |-> req.forCall, error |-> isErr]}
    /\ UNCHANGED <<process, messageId, pendingRequests, calls, timers, events, notified,
                   started, timedOut, abandoned, settleOrder,
                   dropped, spawnResult, startPromise, startQueue, transportFrame>>

\* the child writes a notification (a message with a method and no id)
ChildNotify ==
    /\ spawnResult = "ok"
    /\ process = "live"
    /\ notified < MaxNotifications
    /\ notified' = notified + 1
    /\ wire' = wire \cup {[kind |-> "notification", id |-> 0, forCall |-> notified + 1,
                           error |-> FALSE]}
    /\ UNCHANGED <<process, messageId, pendingRequests, calls, timers, childInbox, events,
                   started, timedOut, abandoned, settleOrder,
                   dropped, spawnResult, startPromise, startQueue, transportFrame>>

\* handleData receives one complete line from the child, in any order
Deliver ==
    /\ \E msg \in wire :
          LET st == handleMessage(msg, transportState) IN
          /\ wire' = wire \ {msg}
          /\ pendingRequests' = st.pendingRequests
          /\ calls' = st.calls
          /\ events' = st.events
          /\ settleOrder' = settleOrder \o st.settled
          /\ dropped' = IF msg.kind = "response" /\ msg.id \notin DOMAIN pendingRequests
                        THEN dropped \cup {msg.forCall} ELSE dropped
    /\ UNCHANGED <<process, messageId, timers, childInbox, notified, started, timedOut,
                   abandoned, spawnResult, startPromise, startQueue, transportFrame>>

\* the 30 s timer of one request fires
Timeout ==
    /\ \E t \in timers :
          LET st == onTimeout(t.id, t.call, transportState) IN
          /\ timers' = timers \ {t}
          /\ pendingRequests' = st.pendingRequests
          /\ calls' = st.calls
          /\ events' = st.events
          /\ settleOrder' = settleOrder \o st.settled
          /\ timedOut' = IF t.id \in DOMAIN pendingRequests
                         THEN timedOut \cup {t.call} ELSE timedOut
    /\ UNCHANGED <<process, messageId, childInbox, wire, notified, started, abandoned,
                   dropped, spawnResult, startPromise, startQueue, transportFrame>>

\* the continuations stop() finds in the map, with their settle counts
stopAbandons(pending, cs) ==
    [c \in {pending[k] : k \in DOMAIN pending} |-> cs[c].settleCalls]

\* stop(): kill the child, forget the handle, clear the map
Stop ==
    /\ process' = "null"
    /\ pendingRequests' = EmptyMap
    /\ childInbox' = {}
    /\ abandoned' = stopAbandons(pendingRequests, calls) @@ abandoned
    /\ UNCHANGED <<messageId, calls, timers, wire, events, notified, started, timedOut,
                   settleOrder,
                   dropped, spawnResult, startPromise, startQueue, transportFrame>>

TransportNext ==
    \/ Start
    \/ SpawnError
    \/ StartTimer
    \/ Request
    \/ ChildRespond
    \/ ChildNotify
    \/ Deliver
    \/ Timeout
    \/ Stop

\* the child of the transport answers while it is alive
LiveChildRespond == ~childExited /\ ChildRespond

\* the child exits: the 'close' handler of start() re-emits the event and
\* touches nothing else; what the child has written can still be read
ChildExit ==
    /\ spawnResult = "ok"
    /\ process = "live"
    /\ childExited = FALSE
    /\ childExited' = TRUE
    /\ UNCHANGED <<transportVars, convVars, registryVars, hostVars, callVars,
                   registryLog, streamVars, sessionVars, promptVars, retryVars,
                   budgetVars, watchVars, handshakeVars, reviewVars, ownerVars>>

\* one started transport whose child may exit at any moment
TransportExitNext ==
    \/ Request
    \/ LiveChildRespond
    \/ ChildExit
    \/ Deliver
    \/ Timeout
    \/ Stop

----------------------------------------------------------------------------
\* StdioTransport: the output streams of the child, handleData and the
\* 'error' event

\* the characters of the modelled lines: braces, the digit of an id, "e" for
\* an error member, "n" for a method member, "x" for text that is not JSON,
\* " " for white space and "\n"
Digits == <<"1", "2", "3", "4", "5">>
Whitespace == {" "}
Newline == "\n"

\* JSON.stringify(message) as the child writes it, without the newline
stringify(msg) ==
    CASE msg.kind = "response" /\ msg.error -> <<"{", "e", Digits[msg.id], "}">>
      [] msg.kind = "response" -> <<"{", Digits[msg.id], "}">>
      [] OTHER -> <<"{", "n", "}">>

\* String.prototype.trim()
RECURSIVE trimStart(_)
trimStart(line) ==
    IF line # <<>> /\ Head(line) \in Whitespace THEN trimStart(Tail(line)) ELSE line
RECURSIVE trimEnd(_)
trimEnd(line) ==
    IF line # <<>> /\ line[Len(line)] \in Whitespace
    THEN trimEnd(SubSeq(line, 1, Len(line) - 1)) ELSE line
trim(line) == trimEnd(trimStart(line))

idOfDigit(ch) == CHOOSE k \in 1..Len(Digits) : Digits[k] = ch
isDigit(ch) == \E k \in 1..Len(Digits) : Digits[k] = ch

SyntaxError == [kind |-> "SyntaxError", id |-> 0, forCall |-> 0, error |-> FALSE]

\* JSON.parse(line): the message, or SyntaxError for text that is not JSON
\* (call c of a transport has id c, so forCall is the id)
JSONparse(line) ==
    LET t == trim(line) IN
    CASE Len(t) = 3 /\ t[1] = "{" /\ isDigit(t[2]) /\ t[3] = "}" ->
             [kind |-> "response", id |-> idOfDigit(t[2]),
              forCall |-> idOfDigit(t[2]), error |-> FALSE]
      [] Len(t) = 4 /\ t[1] = "{" /\ t[2] = "e" /\ isDigit(t[3]) /\ t[4] = "}" ->
             [kind |-> "response", id |-> idOfDigit(t[3]),
              forCall |-> idOfDigit(t[3]), error |-> TRUE]
      [] t = <<"{", "n", "}">> -> [kind |-> "notification", id |-> 0, forCall |-> 0,
                                   error |-> FALSE]
      [] OTHER -> SyntaxError

\* this.emit('error', new Error(...)): EventEmitter throws the error when no
\* listener is registered for 'error', else it calls the listeners
emitError(st, listeners) ==
    IF listeners = 0
    THEN [st EXCEPT !.uncaught = TRUE]
    ELSE [st EXCEPT !.errorEvents = @ + 1]

\* handleMessage(line): parse, dispatch; the catch block emits 'error', and
\* what that emit throws leaves handleMessage
handleLine(line, st, listeners) ==
    LET msg == JSONparse(line)
        st1 == [st EXCEPT !.handled = Append(@, line)]
    IN  IF msg = SyntaxError
        THEN emitError(st1, listeners)
        ELSE LET r == handleMessage(msg, [st1 EXCEPT !.settled = <<>>]) IN
             [r EXCEPT !.settled = st1.settled \o r.settled,
                       !.dropped = IF msg.kind = "response"
                                      /\ msg.id \notin DOMAIN st1.pendingRequests
                                   THEN @ \cup {msg.forCall} ELSE @]

\* this.buffer.indexOf('\n'), counted from 1; 0 when there is none
indexOfNewline(buf) ==
    IF \E i \in 1..Len(buf) : buf[i] = Newline
    THEN CHOOSE i \in 1..Len(buf) :
            buf[i] = Newline /\ \A j \in 1..(i - 1) : buf[j] # Newline
    ELSE 0

\* the while loop of handleData: the buffer is cut before the line is handled,
\* and an exception thrown by handleMessage ends the loop
RECURSIVE processLines(_, _)
processLines(st, listeners) ==
    LET i == indexOfNewline(st.buffer) IN
    IF i = 0 THEN st
    ELSE LET line == SubSeq(st.buffer, 1, i - 1)
             st1 == [st EXCEPT !.buffer = SubSeq(@, i + 1, Len(@))]
         IN  IF trim(line) = <<>>
             THEN processLines(st1, listeners)
             ELSE LET st2 == handleLine(line, st1, listeners) IN
                  IF st2.uncaught THEN st2 ELSE processLines(st2, listeners)

\* handleData(data)
handleData(data, st, listeners) ==
    processLines([st EXCEPT !.buffer = @ \o data], listeners)

streamState ==
    [pendingRequests |-> pendingRequests, calls |-> calls, events |-> events,
     settled |-> <<>>, buffer |-> buffer, handled |-> handled,
     errorEvents |-> errorEvents, uncaught |-> uncaught, dropped |-> dropped]

\* the child writes at most this many lines to stdout
MaxLines == 2
\* the child writes to stderr at most this many times
MaxStderrWrites == 1

StreamIdle ==
    /\ buffer = <<>>
    /\ stdoutPipe = <<>>
    /\ stderrPipe = 0
    /\ errorListeners = 0
    /\ uncaught = FALSE
    /\ linesWritten = 0
    /\ received = <<>>
    /\ handled = <<>>
    /\ errorEvents = 0
    /\ stderrSeen = 0

\* a transport whose start() has resolved
TransportStarted ==
    /\ process = "live"
    /\ messageId = 0
    /\ pendingRequests = EmptyMap
    /\ calls = NoCalls
    /\ timers = {}
    /\ childInbox = {}
    /\ wire = {}
    /\ events = 0
    /\ notified = 0
    /\ started = TRUE
    /\ timedOut = {}
    /\ abandoned = EmptyMap
    /\ settleOrder = <<>>
    /\ dropped = {}
    /\ spawnResult = "ok"
    /\ startPromise = "resolved"
    /\ startQueue = {}

streamFrame ==
    <<convVars, registryVars, hostVars, callVars, registryLog, sessionVars, promptVars,
      retryVars, budgetVars, watchVars, exitVars,
      handshakeVars, reviewVars, ownerVars>>

\* the lines a child can write: the answer to a request it has read, a
\* notification, text that is not JSON, a blank line
childLines(inbox) ==
    {stringify([kind |-> "response", id |-> req.id, forCall |-> req.forCall,
                error |-> isErr]) : req \in inbox, isErr \in BOOLEAN}
    \cup {stringify([kind |-> "notification", id |-> 0, forCall |-> 0, error |-> FALSE]),
          <<"x">>, <<" ">>}

\* request() on the started transport
StreamRequest ==
    /\ ~uncaught
    /\ Request

\* the child writes one line and its newline to stdout
ChildWriteLine ==
    /\ ~uncaught
    /\ process = "live"
    /\ linesWritten < MaxLines
    /\ \E line \in childLines(childInbox) :
          /\ stdoutPipe' = stdoutPipe \o line \o <<Newline>>
          /\ childInbox' = {req \in childInbox :
                               /\ line # stringify([kind |-> "response", id |-> req.id,
                                         forCall |-> req.forCall, error |-> FALSE])
                               /\ line # stringify([kind |-> "response", id |-> req.id,
                                         forCall |-> req.forCall, error |-> TRUE])}
    /\ linesWritten' = linesWritten + 1
    /\ UNCHANGED <<process, messageId, pendingRequests, calls, timers, wire, events,
                   notified, started, timedOut, abandoned, settleOrder, dropped,
                   spawnResult, startPromise, startQueue>>
    /\ UNCHANGED <<buffer, stderrPipe, errorListeners, uncaught, received, handled,
                   errorEvents, stderrSeen, streamFrame>>

\* this.process.stdout.on('data', ...): one chunk, which is any non-empty
\* prefix of what the child has written and the transport has not read
StdoutData ==
    /\ ~uncaught
    /\ process = "live"
    /\ \E n \in 1..Len(stdoutPipe) :
          LET data == SubSeq(stdoutPipe, 1, n)
              st == handleData(data, streamState, errorListeners)
          IN  /\ stdoutPipe' = SubSeq(stdoutPipe, n + 1, Len(stdoutPipe))
              /\ received' = received \o data
              /\ buffer' = st.buffer
              /\ pendingRequests' = st.pendingRequests
              /\ calls' = st.calls
              /\ events' = st.events
              /\ settleOrder' = settleOrder \o st.settled
              /\ dropped' = st.dropped
              /\ handled' = st.handled
              /\ errorEvents' = st.errorEvents
              /\ uncaught' = st.uncaught
    /\ UNCHANGED <<process, messageId, timers, childInbox, wire, notified, started,
                   timedOut, abandoned, spawnResult, startPromise, startQueue>>
    /\ UNCHANGED <<stderrPipe, errorListeners, linesWritten, stderrSeen, streamFrame>>

\* the child writes to stderr
ChildWriteStderr ==
    /\ ~uncaught
    /\ process = "live"
    /\ stderrPipe + stderrSeen < MaxStderrWrites
    /\ stderrPipe' = stderrPipe + 1
    /\ UNCHANGED <<buffer, stdoutPipe, errorListeners, uncaught, linesWritten, received,
                   handled, errorEvents, stderrSeen, transportVars, streamFrame>>

\* this.process.stderr.on('data', (data) => this.emit('error', new Error(...)))
StderrData ==
    /\ ~uncaught
    /\ process = "live"
    /\ stderrPipe > 0
    /\ stderrPipe' = stderrPipe - 1
    /\ stderrSeen' = stderrSeen + 1
    /\ LET st == emitError(streamState, errorListeners) IN
          /\ errorEvents' = st.errorEvents
          /\ uncaught' = st.uncaught
    /\ UNCHANGED <<buffer, stdoutPipe, errorListeners, linesWritten, received, handled,
                   transportVars, streamFrame>>

StreamNext ==
    \/ StreamRequest
    \/ ChildWriteLine
    \/ StdoutData
    \/ ChildWriteStderr
    \/ StderrData

----------------------------------------------------------------------------
\* MCPHost

TOOL_SERVERS == {"git-diff", "file-context", "conventions", "related-files"}

\* the tools each server lists in its tools/list response
toolsOf(s) ==
    CASE s = "git-diff" -> <<"get_diff", "get_diff_stats", "get_commit_messages">>
      [] s = "file-context" ->
            <<"read_file", "read_lines", "list_directory", "get_file_context">>
      [] s = "conventions" ->
            <<"scan_lint_config", "find_similar_patterns", "get_project_conventions">>
      [] OTHER ->
            <<"find_importers", "find_exports", "find_test_files", "find_type_references">>

\* the tool names of a capability list
toolSet(caps) == {caps[i] : i \in 1..Len(caps)}

\* registerServer after the tools/list response: servers.set, then
\* toolToServer.set for every capability
registerServer(reg, name, transport, capabilities) ==
    mapSet(reg, name,
           [transport |-> transport, capabilities |-> capabilities,
            order |-> IF name \in DOMAIN reg THEN reg[name].order
                      ELSE Cardinality(DOMAIN reg) + 1])

\* an index that keeps the first owner of a name
indexToolsKeepsOwner(index, capabilities, name) ==
    [k \in DOMAIN index \cup toolSet(capabilities) |->
        IF k \in DOMAIN index THEN index[k] ELSE name]

RECURSIVE indexTools(_, _, _)
indexTools(index, capabilities, name) ==
    IF capabilities = <<>> THEN index
    ELSE indexTools(mapSet(index, Head(capabilities), name), Tail(capabilities), name)

\* the children ToolRegistry.shutdown() reaches: servers in no record are missed
stoppedByRegistry(reg) == {n \in DOMAIN reg : reg[n].transport # NullTransport}

HostIdle ==
    /\ initialized = FALSE
    /\ transports = <<>>
    /\ initPc = "idle"
    /\ shutPc = "idle"
    /\ serverTask = [s \in TOOL_SERVERS |-> "idle"]
    /\ childProcess = [s \in TOOL_SERVERS |-> "none"]
    /\ leaked = 0
    /\ initCalls = 0
    /\ shutdownCompleted = FALSE
    /\ overlapped = FALSE
    /\ tokensUsed = 0
    /\ lastCall = "none"
    /\ hostThrown = "none"
    /\ delegated = FALSE

\* a sequential start: only the first server is spawned by the call itself
InitializeSequential ==
    /\ ~initialized
    /\ initPc = "idle"
    /\ initCalls < MaxInitializes
    /\ initCalls' = initCalls + 1
    /\ initPc' = "running"
    /\ leaked' = leaked + Cardinality({s \in TOOL_SERVERS : childProcess[s] = "alive"})
    /\ childProcess' = [s \in TOOL_SERVERS |->
                           IF s = "git-diff" THEN "alive" ELSE "none"]
    /\ serverTask' = [s \in TOOL_SERVERS |->
                         IF s = "git-diff" THEN "starting" ELSE "idle"]
    /\ shutdownCompleted' = FALSE
    /\ overlapped' = (shutPc = "stopping")
    /\ UNCHANGED <<initialized, transports, shutPc, registryVars, tokensUsed, hostFrame>>

\* initialize() past the initialized test: every server's callback runs up to
\* its first await, so every transport is created and spawn() is called
Initialize ==
    /\ ~initialized
    /\ initPc = "idle"
    /\ initCalls < MaxInitializes
    /\ initCalls' = initCalls + 1
    /\ initPc' = "running"
    /\ leaked' = leaked + Cardinality({s \in TOOL_SERVERS : childProcess[s] = "alive"})
    /\ \E failing \in SUBSET TOOL_SERVERS :
          childProcess' = [s \in TOOL_SERVERS |->
                              IF s \in failing THEN "spawnFailed" ELSE "alive"]
    /\ serverTask' = [s \in TOOL_SERVERS |-> "starting"]
    /\ shutdownCompleted' = FALSE
    /\ overlapped' = (shutPc = "stopping")
    /\ UNCHANGED <<initialized, transports, shutPc, registryVars, tokensUsed, hostFrame>>

\* the outcomes of one server's callback
TaskFailed == {"start failed", "initialize failed", "tools/list failed"}
TaskSettled == TaskFailed \cup {"done"}

\* await transport.start(): a failed spawn emits 'error' on the next tick, long
\* before the 100 ms timer, so start() rejects; otherwise the timer resolves it
startOutcome(child) ==
    IF child = "spawnFailed" THEN "start failed" ELSE "initialize"

StartSettled ==
    /\ \E s \in TOOL_SERVERS :
          /\ serverTask[s] = "starting"
          /\ serverTask' = [serverTask EXCEPT ![s] = startOutcome(childProcess[s])]
    /\ UNCHANGED <<initialized, transports, initPc, shutPc, childProcess, leaked,
                   initCalls, shutdownCompleted, overlapped, registryVars, tokensUsed, hostFrame>>

\* await transport.request('initialize') settles; on success the notification
\* is written and registerServer sends tools/list
InitializeSettled ==
    /\ \E s \in TOOL_SERVERS :
          /\ serverTask[s] = "initialize"
          /\ \/ /\ childProcess[s] = "alive"
                /\ serverTask' = [serverTask EXCEPT ![s] = "tools/list"]
             \/ serverTask' = [serverTask EXCEPT ![s] = "initialize failed"]
    /\ UNCHANGED <<initialized, transports, initPc, shutPc, childProcess, leaked,
                   initCalls, shutdownCompleted, overlapped, registryVars, tokensUsed, hostFrame>>

\* await transport.request('tools/list') settles inside registerServer; on
\* success the server is recorded and the host keeps the transport
ToolsListSettled ==
    /\ \E s \in TOOL_SERVERS :
          /\ serverTask[s] = "tools/list"
          /\ \/ /\ childProcess[s] = "alive"
                /\ servers' = registerServer(servers, s, s, toolsOf(s))
                /\ toolToServer' = indexTools(toolToServer, toolsOf(s), s)
                /\ transports' = Append(transports, s)
                /\ serverTask' = [serverTask EXCEPT ![s] = "done"]
             \/ /\ serverTask' = [serverTask EXCEPT ![s] = "tools/list failed"]
                /\ UNCHANGED <<servers, toolToServer, transports>>
    /\ UNCHANGED <<initialized, initPc, shutPc, childProcess, leaked, initCalls,
                   shutdownCompleted, overlapped, tokensUsed, hostFrame>>

\* Promise.all in place of Promise.allSettled: one rejected callback rejects
\* initialize() and the flag stays unset
InitializeCompleteFailFast ==
    /\ initPc = "running"
    /\ \A s \in TOOL_SERVERS : serverTask[s] \in TaskSettled
    /\ initialized' = (\A s \in TOOL_SERVERS : serverTask[s] = "done")
    /\ initPc' = "idle"
    /\ serverTask' = [s \in TOOL_SERVERS |-> "idle"]
    /\ UNCHANGED <<transports, shutPc, childProcess, leaked, initCalls,
                   shutdownCompleted, overlapped, registryVars, tokensUsed, hostFrame>>

\* Promise.allSettled resolved: the failures are logged, the flag is set and
\* the callbacks' results go away with the call
InitializeComplete ==
    /\ initPc = "running"
    /\ \A s \in TOOL_SERVERS : serverTask[s] \in TaskSettled
    /\ initialized' = TRUE
    /\ initPc' = "idle"
    /\ serverTask' = [s \in TOOL_SERVERS |-> "idle"]
    /\ UNCHANGED <<transports, shutPc, childProcess, leaked, initCalls,
                   shutdownCompleted, overlapped, registryVars, tokensUsed, hostFrame>>

\* shutdown() up to the await in ToolRegistry.shutdown(): stop() has run on
\* the transport of every server record
ShutdownBegin ==
    /\ shutPc = "idle"
    /\ shutPc' = "stopping"
    /\ childProcess' = [s \in TOOL_SERVERS |->
                           IF s \in stoppedByRegistry(servers) /\ childProcess[s] = "alive"
                           THEN "killed" ELSE childProcess[s]]
    /\ overlapped' = (initPc = "running")
    /\ UNCHANGED <<initialized, transports, initPc, serverTask, leaked, initCalls,
                   shutdownCompleted, registryVars, tokensUsed, hostFrame>>

\* the rest of shutdown(): the registry is cleared, the host fields are reset
ShutdownFinish ==
    /\ shutPc = "stopping"
    /\ shutPc' = "idle"
    /\ servers' = EmptyMap
    /\ toolToServer' = EmptyMap
    /\ transports' = <<>>
    /\ initialized' = FALSE
    /\ tokensUsed' = 0
    /\ shutdownCompleted' = TRUE
    /\ UNCHANGED <<initPc, serverTask, childProcess, leaked, initCalls, overlapped,
                   hostFrame>>

HostNext ==
    \/ Initialize
    \/ StartSettled
    \/ InitializeSettled
    \/ ToolsListSettled
    \/ InitializeComplete
    \/ ShutdownBegin
    \/ ShutdownFinish

----------------------------------------------------------------------------
\* MCPHost as used by a caller that awaits every call before the next one

\* the lengths of the texts given to addTokenUsage
TextLengths == {1, 5}

\* Math.ceil(text.length / 4)
tokensOf(len) == (len + 3) \div 4

\* initialize() without its first line
alreadyInitializedIgnored(flag) == FALSE

\* if (this.initialized) return;
alreadyInitialized(flag) == flag

\* runReview() without its initialized test
requireInitializedSkipped(flag) == "none"

\* if (!this.initialized) throw new Error('MCPHost not initialized. ...')
requireInitialized(flag) ==
    IF ~flag THEN "MCPHost not initialized" ELSE "none"

\* the orders in which the callbacks of the servers in S can reach registerServer
RECURSIVE Orders(_)
Orders(S) ==
    IF S = {} THEN {<<>>}
    ELSE UNION {{<<x>> \o q : q \in Orders(S \ {x})} : x \in S}

RECURSIVE registerAll(_, _)
registerAll(reg, order) ==
    IF order = <<>> THEN reg
    ELSE registerAll(registerServer(reg, Head(order), Head(order), toolsOf(Head(order))),
                     Tail(order))

RECURSIVE indexAll(_, _)
indexAll(index, order) ==
    IF order = <<>> THEN index
    ELSE indexAll(indexTools(index, toolsOf(Head(order)), Head(order)), Tail(order))

\* await initialize() on a host that is not initialized: some servers fail to
\* spawn, some of the others fail their handshake or discovery, the rest
\* register in the order their tools/list responses arrive; then the flag is set
InitializeAwaited ==
    /\ initPc = "idle" /\ shutPc = "idle"
    /\ ~alreadyInitialized(initialized)
    /\ initCalls < MaxInitializes
    /\ \E failing \in SUBSET TOOL_SERVERS :
          \E done \in SUBSET (TOOL_SERVERS \ failing) :
             \E order \in Orders(done) :
                /\ childProcess' = [s \in TOOL_SERVERS |->
                                       IF s \in failing THEN "spawnFailed" ELSE "alive"]
                /\ servers' = registerAll(servers, order)
                /\ toolToServer' = indexAll(toolToServer, order)
                /\ transports' = transports \o order
    /\ serverTask' = [s \in TOOL_SERVERS |-> "idle"]
    /\ leaked' = leaked + Cardinality({s \in TOOL_SERVERS : childProcess[s] = "alive"})
    /\ initCalls' = initCalls + 1
    /\ initialized' = TRUE
    /\ shutdownCompleted' = FALSE
    /\ lastCall' = "initialize"
    /\ hostThrown' = "none"
    /\ delegated' = FALSE
    /\ UNCHANGED <<initPc, shutPc, overlapped, tokensUsed, convVars, transportVars, registryLog, laterVars>>

\* await initialize() on an initialized host: the early return
InitializeAgain ==
    /\ initPc = "idle" /\ shutPc = "idle"
    /\ alreadyInitialized(initialized)
    /\ lastCall' = "initialize (no-op)"
    /\ hostThrown' = "none"
    /\ delegated' = FALSE
    /\ UNCHANGED <<hostVars, registryVars, tokensUsed, convVars, transportVars, registryLog, laterVars>>

\* runReview(): the initialized test, then the call of conversation.runReview
HostRunReview ==
    /\ initPc = "idle" /\ shutPc = "idle"
    /\ lastCall' = "runReview"
    /\ hostThrown' = requireInitialized(initialized)
    /\ delegated' = (requireInitialized(initialized) = "none")
    /\ UNCHANGED <<hostVars, registryVars, tokensUsed, convVars, transportVars, registryLog, laterVars>>

\* addTokenUsage(text)
addTokenUsage ==
    /\ initPc = "idle" /\ shutPc = "idle"
    /\ \E len \in TextLengths :
          /\ tokensUsed + tokensOf(len) <= MaxTokensUsed
          /\ tokensUsed' = tokensUsed + tokensOf(len)
    /\ lastCall' = "addTokenUsage"
    /\ hostThrown' = "none"
    /\ delegated' = FALSE
    /\ UNCHANGED <<hostVars, registryVars, convVars, transportVars, registryLog, laterVars>>

\* a shutdown() that leaves the used-token counter as it is
ShutdownAwaitedKeepsUsage ==
    /\ initPc = "idle" /\ shutPc = "idle"
    /\ childProcess' = [s \in TOOL_SERVERS |->
                           IF s \in stoppedByRegistry(servers) /\ childProcess[s] = "alive"
                           THEN "killed" ELSE childProcess[s]]
    /\ servers' = EmptyMap
    /\ toolToServer' = EmptyMap
    /\ transports' = <<>>
    /\ initialized' = FALSE
    /\ shutdownCompleted' = TRUE
    /\ overlapped' = FALSE
    /\ lastCall' = IF lastCall \in {"shutdown", "shutdown (again)"}
                   THEN "shutdown (again)" ELSE "shutdown"
    /\ hostThrown' = "none"
    /\ delegated' = FALSE
    /\ UNCHANGED <<initPc, shutPc, serverTask, leaked, initCalls, tokensUsed,
                   convVars, transportVars, registryLog, laterVars>>

\* await shutdown(): the registry stops its transports and clears its maps,
\* then the host resets its fields
ShutdownAwaited ==
    /\ initPc = "idle" /\ shutPc = "idle"
    /\ childProcess' = [s \in TOOL_SERVERS |->
                           IF s \in stoppedByRegistry(servers) /\ childProcess[s] = "alive"
                           THEN "killed" ELSE childProcess[s]]
    /\ servers' = EmptyMap
    /\ toolToServer' = EmptyMap
    /\ transports' = <<>>
    /\ initialized' = FALSE
    /\ tokensUsed' = 0
    /\ shutdownCompleted' = TRUE
    /\ overlapped' = FALSE
    /\ lastCall' = IF lastCall \in {"shutdown", "shutdown (again)"}
                   THEN "shutdown (again)" ELSE "shutdown"
    /\ hostThrown' = "none"
    /\ delegated' = FALSE
    /\ UNCHANGED <<initPc, shutPc, serverTask, leaked, initCalls,
                   convVars, transportVars, registryLog, laterVars>>

HostCallsNext ==
    \/ InitializeAwaited
    \/ InitializeAgain
    \/ HostRunReview
    \/ addTokenUsage
    \/ ShutdownAwaited

----------------------------------------------------------------------------
\* ToolRegistry used directly: registration, callTool with its cache, shutdown

\* the tools whose results the registry caches
CACHEABLE_TOOLS ==
    {"read_file", "read_lines", "get_file_context", "find_importers", "find_exports",
     "find_test_files", "find_type_references", "scan_lint_config",
     "get_project_conventions", "get_diff", "get_diff_stats", "get_commit_messages"}

\* the cache key: the tool name and the JSON text of the arguments
cacheKey(name, arguments) == <<name, arguments>>

\* a lookup that never finds an entry
cacheLookupMiss(cache, name, arguments) ==
    [hit |-> FALSE, result |-> Undefined]

\* the cached result a callTool of a cacheable tool finds, if any
cacheLookup(cache, name, arguments) ==
    IF name \in CACHEABLE_TOOLS /\ cacheKey(name, arguments) \in DOMAIN cache
    THEN [hit |-> TRUE, result |-> cache[cacheKey(name, arguments)]]
    ELSE [hit |-> FALSE, result |-> Undefined]

\* a non-error result of a cacheable tool is stored under its key
cacheStore(cache, name, arguments, result) ==
    IF name \in CACHEABLE_TOOLS /\ result.isError # "true"
    THEN mapSet(cache, cacheKey(name, arguments), result)
    ELSE cache

\* the servers, tool names and argument texts the modelled caller uses
RegistryServers == {"file-context", "conventions"}
RegToolNames == {"read_file", "find_similar_patterns", "manual_tool", "does_not_exist"}
ToolRequests ==
    {<<"read_file", "{path:a}">>, <<"read_file", "{path:b}">>,
     <<"find_similar_patterns", "{path:a}">>, <<"does_not_exist", "{path:a}">>}

\* registerToolManually(serverName, capability)
registerToolManually(reg, serverName, capability) ==
    IF serverName \in DOMAIN reg
    THEN [reg EXCEPT ![serverName].capabilities = Append(@, capability)]
    ELSE mapSet(reg, serverName,
                [transport |-> NullTransport, capabilities |-> <<capability>>,
                 order |-> Cardinality(DOMAIN reg) + 1])

\* a shutdown() that awaits each stop() in turn and gives up at the first
\* one that rejects
stopsInvokedUntilFailure(reg, failing) ==
    {n \in stoppedByRegistry(reg) :
        \A m \in stoppedByRegistry(reg) \cap failing : reg[n].order <= reg[m].order}

\* shutdown(): the loop pushes the stop() promise of every record that has a
\* transport; a rejected stop() is only seen by Promise.allSettled
stopsInvoked(reg, failing) == stoppedByRegistry(reg)

RegistryIdle ==
    /\ toolCache = EmptyMap
    /\ regCalls = <<>>
    /\ stopTargets = {}
    /\ stopCalls = {}
    /\ stopFailures = {}
    /\ registryOp = "other"

\* any call other than shutdown(): the record of the last shutdown() is dropped
ForgetShutdown ==
    /\ registryOp' = "other"
    /\ stopTargets' = {}
    /\ stopCalls' = {}
    /\ stopFailures' = {}

\* registerServer(name, transport) whose tools/list request succeeds
RegisterServer ==
    /\ \E s \in RegistryServers :
          /\ s \notin DOMAIN servers
          /\ servers' = registerServer(servers, s, s, toolsOf(s))
          /\ toolToServer' = indexTools(toolToServer, toolsOf(s), s)
    /\ ForgetShutdown
    /\ UNCHANGED <<toolCache, regCalls, registryFrame>>

RegisterToolManually ==
    /\ "manual_tool" \notin DOMAIN toolToServer
    /\ servers' = registerToolManually(servers, "manual", "manual_tool")
    /\ toolToServer' = mapSet(toolToServer, "manual_tool", "manual")
    /\ ForgetShutdown
    /\ UNCHANGED <<toolCache, regCalls, registryFrame>>

\* the servers that list the tool among their capabilities
ownersOf(reg, name) ==
    {n \in DOMAIN reg : name \in toolSet(reg[n].capabilities)}

\* the calls that have returned and that no shutdown() has followed
returnedCalls(cs) ==
    {i \in 1..Len(cs) : cs[i].outcome # "pending" /\ ~cs[i].cleared}

\* the number of tools/call requests sent so far
requestsSent(cs) == Cardinality({i \in 1..Len(cs) : cs[i].sent})

\* callTool(request) up to its return or its await of transport.request
CallTool ==
    /\ Len(regCalls) < MaxToolCalls
    /\ \E request \in ToolRequests :
          LET name == request[1]
              arguments == request[2]
              route == callToolRoute(servers, toolToServer, name)
              look == cacheLookup(toolCache, name, arguments)
              call == [name |-> name, arguments |-> arguments,
                       owners |-> ownersOf(servers, name),
                       after |-> returnedCalls(regCalls),
                       cleared |-> FALSE,
                       transport |-> "none"]
          IN  regCalls' = Append(regCalls,
                 IF route.kind = "result"
                 THEN call @@ [sent |-> FALSE, outcome |-> "result",
                               content |-> route.content, isError |-> route.isError,
                               serverName |-> Undefined]
                 ELSE IF look.hit
                 THEN call @@ [sent |-> FALSE, outcome |-> "result",
                               content |-> look.result.content,
                               isError |-> look.result.isError,
                               serverName |-> route.server]
                 ELSE call @@ [sent |-> TRUE, outcome |-> "pending",
                               content |-> requestsSent(regCalls) + 1,
                               isError |-> Undefined,
                               serverName |-> route.server])
    /\ ForgetShutdown
    /\ UNCHANGED <<servers, toolToServer, toolCache, registryFrame>>

\* the transport request of a callTool settles; a request whose transport
\* has been stopped can only time out
CallToolSettled ==
    /\ \E i \in 1..Len(regCalls) :
          /\ regCalls[i].outcome = "pending"
          /\ \E o \in TransportOutcomes :
                /\ regCalls[i].cleared => o = "reject"
                /\ LET r == callToolSettle(regCalls[i].serverName, o)
                       result == [content |-> regCalls[i].content, isError |-> r.isError]
                   IN  IF r.kind = "throw"
                       THEN /\ regCalls' = [regCalls EXCEPT ![i].outcome = r.error,
                                                             ![i].serverName = r.serverName,
                                                             ![i].transport = o]
                            /\ UNCHANGED toolCache
                       ELSE /\ regCalls' = [regCalls EXCEPT ![i].outcome = "result",
                                                             ![i].isError = r.isError,
                                                             ![i].transport = o]
                            /\ toolCache' = cacheStore(toolCache, regCalls[i].name,
                                                       regCalls[i].arguments, result)
    /\ ForgetShutdown
    /\ UNCHANGED <<servers, toolToServer, registryFrame>>

\* await shutdown(): stop() on the transports, then the maps and the cache
\* are cleared
RegistryShutdown ==
    /\ \E failing \in SUBSET stoppedByRegistry(servers) :
          /\ stopCalls' = stopsInvoked(servers, failing)
          /\ stopFailures' = failing
    /\ stopTargets' = {n \in DOMAIN servers : servers[n].transport # NullTransport}
    /\ servers' = EmptyMap
    /\ toolToServer' = EmptyMap
    /\ toolCache' = EmptyMap
    /\ regCalls' = [i \in 1..Len(regCalls) |-> [regCalls[i] EXCEPT !.cleared = TRUE]]
    /\ registryOp' = "shutdown"
    /\ UNCHANGED registryFrame

RegistryNext ==
    \/ RegisterServer
    \/ RegisterToolManually
    \/ CallTool
    \/ CallToolSettled
    \/ RegistryShutdown

----------------------------------------------------------------------------
\* ConversationManager.runReview

MAX_TOOL_ROUNDS == 2

NoTools == <<"(tools omitted)">>
NoResponse == [stop_reason |-> "none", blocks |-> <<>>, hasText |-> FALSE]

\* the names a model turn may ask for: a tool served over a transport, a
\* manually registered tool, and a name nobody registered
ToolNames == {"get_diff", "manual_tool", "does_not_exist"}

\* the cap compared one round too late
atLimitOffByOne(rounds) == rounds > MAX_TOOL_ROUNDS

\* const atLimit = toolRounds >= MAX_TOOL_ROUNDS
atLimit(rounds) == rounds >= MAX_TOOL_ROUNDS

\* ...(atLimit ? {} : { tools })
requestTools(rounds, tools) == IF atLimit(rounds) THEN NoTools ELSE tools

\* the error flag of the result left out of the block
toolResultBlockNoFlag(block, task) ==
    [type |-> "tool_result", tool_use_id |-> block.id,
     content |-> task.content, is_error |-> Undefined]

\* the tool_result block built from one fulfilled callTool
toolResultBlock(block, task) ==
    [type |-> "tool_result", tool_use_id |-> block.id,
     content |-> task.content, is_error |-> task.isError]

\* the results collected as the calls settle instead of by block
toolResultsAsSettled(blocks, tasks, order) ==
    [i \in 1..Len(blocks) |-> [type |-> "tool_result", tool_use_id |-> blocks[order[i]].id,
                               content |-> tasks[order[i]].content,
                               is_error |-> tasks[order[i]].isError]]

\* Promise.all keeps the order of its input, whatever the settle order
toolResults(blocks, tasks, order) ==
    [i \in 1..Len(blocks) |-> toolResultBlock(blocks[i], tasks[i])]

\* the promise of one toolUseBlocks.map callback right after callTool was invoked
startTask(reg, index, block) ==
    LET r == callToolRoute(reg, index, block.name) IN
    IF r.kind = "request"
    THEN [status |-> "pending", server |-> r.server, content |-> "", isError |-> Undefined]
    ELSE [status |-> "returning", server |-> "", content |-> r.content, isError |-> r.isError]

\* the registry as MCPHost.initialize and registerToolManually leave it: one
\* server discovered over a transport, one tool registered by hand
ReadyServers ==
    [n \in {"git-diff", "manual"} |->
        IF n = "git-diff"
        THEN [transport |-> "t1", capabilities |-> <<"get_diff">>, order |-> 1]
        ELSE [transport |-> NullTransport, capabilities |-> <<"manual_tool">>, order |-> 2]]

ReadyIndex ==
    [t \in {"get_diff", "manual_tool"} |-> IF t = "get_diff" THEN "git-diff" ELSE "manual"]

ConvIdle ==
    /\ pc = "idle"
    /\ messages = <<>>
    /\ response = NoResponse
    /\ toolRounds = 0
    /\ turnNumber = 0
    /\ requests = <<>>
    /\ toolTasks = <<>>
    /\ completionOrder = <<>>
    /\ callToolLog = <<>>
    /\ thrown = "none"
    /\ blocksIssued = 0

\* lines 297-360: build the first message and issue provider call #1
RunReviewStart ==
    /\ pc = "idle"
    /\ messages' = <<[role |-> "user", content |-> <<>>, prompt |-> TRUE]>>
    /\ turnNumber' = 1
    /\ requests' = <<[tools |-> getAvailableTools(servers), messages |-> messages']>>
    /\ pc' = "awaitingResponse"
    /\ UNCHANGED <<response, toolRounds, toolTasks, completionOrder, callToolLog,
                   thrown, blocksIssued, convFrame>>

\* a provider response with stop_reason tool_use and K tool_use blocks:
\* lines 370-405 up to the await on Promise.all
ProviderToolUse ==
    /\ pc = "awaitingResponse"
    /\ turnNumber < MaxProviderCalls
    /\ \E K \in 0..(MaxToolUses - blocksIssued) :
       \E names \in [1..K -> ToolNames] :
          LET blocks == [i \in 1..K |->
                           [type |-> "tool_use", id |-> blocksIssued + i, name |-> names[i]]]
          IN  /\ response' = [stop_reason |-> "tool_use", blocks |-> blocks, hasText |-> FALSE]
              /\ toolRounds' = toolRounds + 1
              /\ messages' = Append(messages,
                                [role |-> "assistant", content |-> blocks, prompt |-> FALSE])
              /\ toolTasks' = [i \in 1..K |-> startTask(servers, toolToServer, blocks[i])]
              /\ callToolLog' = callToolLog \o
                    [i \in 1..K |-> [round |-> toolRounds + 1, id |-> blocks[i].id,
                                     name |-> blocks[i].name]]
              /\ blocksIssued' = blocksIssued + K
    /\ completionOrder' = <<>>
    /\ pc' = "toolDispatch"
    /\ UNCHANGED <<turnNumber, requests, thrown, convFrame>>

\* a provider response with any other stop reason: lines 450-461
ProviderFinal ==
    /\ pc = "awaitingResponse"
    /\ \E stop \in {"end_turn", "max_tokens"}, hasText \in BOOLEAN :
          /\ response' = [stop_reason |-> stop, blocks |-> <<>>, hasText |-> hasText]
          /\ IF hasText
             THEN pc' = "done" /\ thrown' = thrown
             ELSE pc' = "threw" /\ thrown' = "No text response from LLM"
    /\ UNCHANGED <<messages, toolRounds, turnNumber, requests, toolTasks,
                   completionOrder, callToolLog, blocksIssued, convFrame>>

\* callWithRetry rethrows: a non-429 error, or the retries are exhausted
ProviderFail ==
    /\ pc = "awaitingResponse"
    /\ pc' = "threw"
    /\ thrown' = "ProviderError"
    /\ UNCHANGED <<messages, response, toolRounds, turnNumber, requests, toolTasks,
                   completionOrder, callToolLog, blocksIssued, convFrame>>

\* one callTool promise settles.  A rejection rejects the Promise.all that
\* runReview awaits, and runReview has no catch around it.
ToolSettle ==
    /\ pc \in {"toolDispatch", "threw"}
    /\ \E i \in 1..Len(toolTasks) :
          /\ toolTasks[i].status \in {"pending", "returning"}
          /\ \E outcome \in TransportOutcomes :
                LET r == IF toolTasks[i].status = "returning"
                         THEN [kind |-> "result", content |-> toolTasks[i].content,
                               isError |-> toolTasks[i].isError]
                         ELSE callToolSettle(toolTasks[i].server, outcome)
                IN  /\ toolTasks[i].status = "returning" => outcome = "result"
                    /\ IF r.kind = "throw"
                       THEN /\ toolTasks' = [toolTasks EXCEPT ![i].status = "rejected"]
                            /\ IF pc = "toolDispatch"
                               THEN pc' = "threw" /\ thrown' = r.error
                               ELSE UNCHANGED <<pc, thrown>>
                       ELSE /\ toolTasks' = [toolTasks EXCEPT ![i].status = "fulfilled",
                                                             ![i].content = r.content,
                                                             ![i].isError = r.isError]
                            /\ UNCHANGED <<pc, thrown>>
          /\ completionOrder' = Append(completionOrder, i)
    /\ UNCHANGED <<messages, response, toolRounds, turnNumber, requests, callToolLog,
                   blocksIssued, convFrame>>

\* a loop that sends the prompt and the latest round only
RoundCompleteLatestOnly ==
    /\ pc = "toolDispatch"
    /\ \A i \in 1..Len(toolTasks) : toolTasks[i].status = "fulfilled"
    /\ messages' = <<messages[1], messages[Len(messages)],
                     [role |-> "user",
                      content |-> toolResults(response.blocks, toolTasks, completionOrder),
                      prompt |-> FALSE]>>
    /\ turnNumber' = turnNumber + 1
    /\ requests' = Append(requests,
                      [tools |-> requestTools(toolRounds, getAvailableTools(servers)),
                       messages |-> messages'])
    /\ pc' = "awaitingResponse"
    /\ UNCHANGED <<response, toolRounds, toolTasks, completionOrder, callToolLog,
                   thrown, blocksIssued, convFrame>>

\* Promise.all resolved: lines 408-435, append the results and call the provider
RoundComplete ==
    /\ pc = "toolDispatch"
    /\ \A i \in 1..Len(toolTasks) : toolTasks[i].status = "fulfilled"
    /\ messages' = Append(messages,
                      [role |-> "user",
                       content |-> toolResults(response.blocks, toolTasks, completionOrder),
                       prompt |-> FALSE])
    /\ turnNumber' = turnNumber + 1
    /\ requests' = Append(requests,
                      [tools |-> requestTools(toolRounds, getAvailableTools(servers)),
                       messages |-> messages'])
    /\ pc' = "awaitingResponse"
    /\ UNCHANGED <<response, toolRounds, toolTasks, completionOrder, callToolLog,
                   thrown, blocksIssued, convFrame>>

ConvNext ==
    \/ RunReviewStart
    \/ ProviderToolUse
    \/ ProviderFinal
    \/ ProviderFail
    \/ ToolSettle
    \/ RoundComplete

----------------------------------------------------------------------------
\* ConversationManager.runReview, one step per provider call: the usage
\* tracker and the parsing of the final response

NoResult == [returned |-> FALSE]
NoFinalResponse == [stop_reason |-> "none", hasText |-> FALSE, text |-> <<>>]

\* response.usage of one provider response: input_tokens, output_tokens
Usages == {[input_tokens |-> 1, output_tokens |-> 1],
           [input_tokens |-> 2, output_tokens |-> 3]}

\* createUsageTracker(model)
createUsageTracker == [totalInput |-> 0, totalOutput |-> 0]

\* an addUsage that keeps only the latest response
addUsageLatestOnly(t, usage) ==
    [totalInput |-> usage.input_tokens, totalOutput |-> usage.output_tokens]

\* tracker.addUsage(inputTokens, outputTokens)
addUsage(t, usage) ==
    [totalInput |-> t.totalInput + usage.input_tokens,
     totalOutput |-> t.totalOutput + usage.output_tokens]

\* tracker.getTotal(), without the derived cost
getTotal(t) == [inputTokens |-> t.totalInput, outputTokens |-> t.totalOutput]

\* The text of a final response, as a sequence of pieces: prose, the opening
\* fence (three backquotes and json), the closing fence (three backquotes),
\* and the text between fences
FenceOpen == "[fence]json"
FenceClose == "[fence]"
FinalTexts ==
    {<<"prose">>,
     <<"prose", FenceOpen, "{review}", FenceClose>>,
     <<FenceOpen, "{}", FenceClose, "prose">>,
     <<FenceOpen, "not json", FenceClose>>,
     <<FenceOpen, "null", FenceClose>>,
     <<FenceOpen, FenceClose>>,
     <<"prose", FenceOpen, "{review}">>}

\* text.match(...)?.[1] with the fenced-JSON pattern: the pieces between the first
\* opening fence that is followed by three backquotes and the nearest such
\* backquotes; <<>> when there is no match or nothing is between them
fencedJson(text) ==
    LET opens == {i \in 1..Len(text) :
                     /\ text[i] = FenceOpen
                     /\ \E j \in (i + 1)..Len(text) : text[j] \in {FenceOpen, FenceClose}}
    IN  IF opens = {} THEN <<>>
        ELSE LET i == CHOOSE k \in opens : \A m \in opens : k <= m
                 j == CHOOSE k \in (i + 1)..Len(text) :
                         /\ text[k] \in {FenceOpen, FenceClose}
                         /\ \A m \in (i + 1)..(k - 1) : text[m] \notin {FenceOpen, FenceClose}
             IN  SubSeq(text, i + 1, j - 1)

\* JSON.parse(jsonMatch[1]) followed by the four property reads: the fields
\* found, or "threw" (SyntaxError, or TypeError for null)
parseFields(body) ==
    CASE body = <<"{review}">> ->
             [critical |-> <<"c1">>, suggestions |-> <<"s1", "s2">>,
              positive |-> <<"p1">>, confidence |-> "high"]
      [] body = <<"{}">> ->
             [critical |-> Undefined, suggestions |-> Undefined,
              positive |-> Undefined, confidence |-> Undefined]
      [] OTHER -> [critical |-> "threw"]

\* a ?? b
orElse(a, b) == IF a = Undefined THEN b ELSE a

\* text.substring(0, 500), in pieces
substring500(text) == SubSeq(text, 1, IF Len(text) < 500 THEN Len(text) ELSE 500)

\* the result returned when no JSON could be parsed
basicResult(text) ==
    [returned |-> TRUE, critical |-> <<>>,
     suggestions |-> <<[file |-> "review", message |-> substring500(text)]>>,
     positive |-> <<>>, confidence |-> "low"]

\* parseReviewOutput(text, stats)
parseReviewOutput(text) ==
    LET body == fencedJson(text) IN
    IF body # <<>> /\ parseFields(body).critical # "threw"
    THEN LET parsed == parseFields(body) IN
         [returned |-> TRUE,
          critical |-> orElse(parsed.critical, <<>>),
          suggestions |-> orElse(parsed.suggestions, <<>>),
          positive |-> orElse(parsed.positive, <<>>),
          confidence |-> orElse(parsed.confidence, "medium")]
    ELSE basicResult(text)

\* result.tokenUsage = tracker.getTotal()
withTokenUsage(r, t) ==
    [returned |-> TRUE, critical |-> r.critical, suggestions |-> r.suggestions,
     positive |-> r.positive, confidence |-> r.confidence, tokenUsage |-> getTotal(t)]

SessionIdle ==
    /\ sessionPc = "idle"
    /\ sessionTurn = 0
    /\ sessionRounds = 0
    /\ tracker = createUsageTracker
    /\ usageLog = <<>>
    /\ finalResponse = NoFinalResponse
    /\ reviewResult = NoResult
    /\ sessionThrown = "none"

sessionFrame ==
    <<convVars, registryVars, transportVars, hostVars, callVars, registryLog, streamVars,
      promptVars, retryVars, budgetVars, watchVars, exitVars,
      handshakeVars, reviewVars, ownerVars>>

\* lines 297-359: create the tracker, build the first message, issue call #1
SessionStart ==
    /\ sessionPc = "idle"
    /\ tracker' = createUsageTracker
    /\ sessionTurn' = 1
    /\ sessionPc' = "awaitingResponse"
    /\ UNCHANGED <<sessionRounds, usageLog, finalResponse, reviewResult, sessionThrown,
                   sessionFrame>>

\* a response with stop_reason tool_use: its usage is added (line 362 or 437),
\* the round's tool calls run (lines 370-408) and either all return, and the
\* next provider call is issued (lines 424-434), or one of them throws
SessionToolUse ==
    /\ sessionPc = "awaitingResponse"
    /\ sessionTurn < MaxProviderCalls
    /\ \E usage \in Usages, returned \in BOOLEAN :
          /\ tracker' = addUsage(tracker, usage)
          /\ usageLog' = Append(usageLog, usage)
          /\ sessionRounds' = sessionRounds + 1
          /\ IF returned
             THEN /\ sessionTurn' = sessionTurn + 1
                  /\ UNCHANGED <<sessionPc, sessionThrown>>
             ELSE /\ sessionPc' = "threw"
                  /\ sessionThrown' = "ToolServerError"
                  /\ UNCHANGED sessionTurn
    /\ UNCHANGED <<finalResponse, reviewResult, sessionFrame>>

\* a response with any other stop reason: its usage is added (line 362 or
\* 437), then lines 450-461 find its first text block, or throw, and return
\* the parsed result with the tracker's totals
SessionFinal ==
    /\ sessionPc = "awaitingResponse"
    /\ \E stop \in {"end_turn", "max_tokens"}, text \in FinalTexts \cup {<<>>},
          usage \in Usages :
          LET hasText == text # <<>> IN
          /\ finalResponse' = [stop_reason |-> stop, hasText |-> hasText, text |-> text]
          /\ tracker' = addUsage(tracker, usage)
          /\ usageLog' = Append(usageLog, usage)
          /\ IF hasText
             THEN /\ sessionPc' = "done"
                  /\ reviewResult' = withTokenUsage(parseReviewOutput(text), tracker')
                  /\ UNCHANGED sessionThrown
             ELSE /\ sessionPc' = "threw"
                  /\ sessionThrown' = "No text response from LLM"
                  /\ UNCHANGED reviewResult
    /\ UNCHANGED <<sessionTurn, sessionRounds, sessionFrame>>

\* callWithRetry rethrows: no response, no usage
SessionProviderFail ==
    /\ sessionPc = "awaitingResponse"
    /\ sessionPc' = "threw"
    /\ sessionThrown' = "ProviderError"
    /\ UNCHANGED <<sessionTurn, sessionRounds, tracker, usageLog, finalResponse,
                   reviewResult, sessionFrame>>

SessionNext ==
    \/ SessionStart
    \/ SessionToolUse
    \/ SessionFinal
    \/ SessionProviderFail

----------------------------------------------------------------------------
\* ConversationManager.runReview: truncateDiff, preloadFileContents and
\* buildInitialPrompt

\* A diff is a sequence of characters.  The text "diff --git " counts as one
\* character, a file is named by one character, and lengths are counted in
\* these characters.
DiffGit == "diff --git "
FileNames == <<"a", "b", "c", "d", "e">>

CHARS_PER_TOKEN == 4

\* diff.split('\n')
RECURSIVE splitLines(_)
splitLines(str) ==
    LET i == indexOfNewline(str) IN
    IF i = 0 THEN <<str>>
    ELSE <<SubSeq(str, 1, i - 1)>> \o splitLines(SubSeq(str, i + 1, Len(str)))

\* line.startsWith('diff --git ')
startsWithDiffGit(line) == line # <<>> /\ Head(line) = DiffGit

\* lines 103-114: the per-file sections, every line followed by "\n"
RECURSIVE fileSectionsOf(_, _)
fileSectionsOf(lines, current) ==
    IF lines = <<>>
    THEN IF current # <<>> THEN <<current>> ELSE <<>>
    ELSE IF startsWithDiffGit(Head(lines)) /\ current # <<>>
         THEN <<current>> \o fileSectionsOf(Tail(lines), Head(lines) \o <<Newline>>)
         ELSE fileSectionsOf(Tail(lines), current \o Head(lines) \o <<Newline>>)

\* the greedy loop stopping at the budget even before the first section
includeSectionsNoneForced(sections, included, size, maxChars) ==
    LET fits == {k \in 0..Len(sections) :
                    Len(Flatten(SubSeq(sections, 1, k))) <= maxChars}
    IN  CHOOSE k \in fits : \A m \in fits : m <= k

\* lines 117-125: how many sections the greedy loop includes, given that
\* `included` of them, of total size `size`, are in the result already
RECURSIVE includeSections(_, _, _, _)
includeSections(sections, included, size, maxChars) ==
    IF included = Len(sections) THEN included
    ELSE IF size + Len(sections[included + 1]) > maxChars /\ included > 0
         THEN included
         ELSE includeSections(sections, included + 1,
                              size + Len(sections[included + 1]), maxChars)

\* the headers of the sections after the first omitted one
omittedHeadersSkipOne(sections, included) ==
    [j \in 1..(Len(sections) - included - 1) |->
        Head(splitLines(sections[included + 1 + j]))]

\* lines 130-135: the first line starting with "diff --git " of every omitted
\* section (from the second section on, that is its first line)
omittedHeaders(sections, included) ==
    [j \in 1..(Len(sections) - included) |-> Head(splitLines(sections[included + j]))]

\* headers.join('\n')
RECURSIVE joinLines(_)
joinLines(lines) ==
    IF lines = <<>> THEN <<>>
    ELSE IF Len(lines) = 1 THEN Head(lines)
         ELSE Head(lines) \o <<Newline>> \o joinLines(Tail(lines))

\* line 138: the text appended when sections were omitted
truncationNotice(omitted, headers) ==
    <<Newline, Newline, "--- DIFF TRUNCATED ---", Newline, Digits[omitted],
      " additional file(s) omitted to fit within context limits:", Newline>>
    \o joinLines(headers)
    \o <<Newline, Newline,
         "Use the get_diff tool with a specific file path to review omitted files.",
         Newline>>

\* truncateDiff(diff, maxTokens)
truncateDiff(diff, tokens) ==
    LET maxChars == tokens * CHARS_PER_TOKEN IN
    IF Len(diff) <= maxChars
    THEN [diff |-> diff, omittedFiles |-> 0]
    ELSE LET fileSections == fileSectionsOf(splitLines(diff), <<>>)
             included == includeSections(fileSections, 0, 0, maxChars)
             kept == Flatten(SubSeq(fileSections, 1, included))
             omitted == Len(fileSections) - included
         IN  [diff |-> IF omitted > 0
                       THEN kept \o truncationNotice(omitted,
                                       omittedHeaders(fileSections, included))
                       ELSE kept,
              omittedFiles |-> omitted]

\* the focus areas that have an instruction template
RecognizedFocus == {"security", "performance"}

\* getFocusInstructions(area): the template of a recognized area, or nothing
getFocusInstructions(area) ==
    IF area \in RecognizedFocus THEN <<"instructions", area>> ELSE Undefined

\* getInitialPrompt(diff, config, fileContents)
getInitialPrompt(diff, files) ==
    [template |-> "generic", diff |-> diff, fileSection |-> files, focusSection |-> <<>>]

\* buildInitialPrompt(diff, stats, fileContents)
buildInitialPrompt(diff, focusAreas, files) ==
    LET instructions == SelectSeq([i \in 1..Len(focusAreas) |->
                                      getFocusInstructions(focusAreas[i])],
                                  LAMBDA x : x # Undefined)
    IN  IF Len(focusAreas) > 0 /\ Len(instructions) > 0
        THEN [template |-> "focus", diff |-> diff, fileSection |-> <<>>,
              focusSection |-> instructions]
        ELSE getInitialPrompt(diff, files)

\* a diff has at most this many file sections
MaxDiffFiles == 3
\* a file section has at most this many lines after its header
MaxBodyLines == 2
\* truncateDiff is called with a budget of at most this many tokens
MaxBudgetTokens == 3
\* this.options.max_files
MaxPreloadFiles == 2

\* the section of file k with n lines after its header
sectionText(k, n) ==
    <<DiffGit, FileNames[k], Newline>> \o Flatten([i \in 1..n |-> <<"+", "x", Newline>>])

\* the diffs of the model: up to MaxDiffFiles sections, each with no, one or
\* MaxBodyLines lines after its header, possibly after a line that is no
\* header, with or without the final newline
Diffs ==
    {LET body == (IF pre THEN <<"i", Newline>> ELSE <<>>)
                 \o Flatten([k \in 1..n |-> sectionText(k, sizes[k])])
     IN  IF final \/ body = <<>> THEN body ELSE SubSeq(body, 1, Len(body) - 1) :
        <<n, sizes, pre, final>> \in
            {q \in (0..MaxDiffFiles) \X [1..MaxDiffFiles -> {0, 1, MaxBodyLines}]
                  \X BOOLEAN \X BOOLEAN :
                \A k \in 1..MaxDiffFiles : k > q[1] => q[2][k] = 0}}

FocusConfigs == {<<>>, <<"security">>, <<"consistency">>, <<"consistency", "performance">>}

\* stats.files: the files the diff names, in order
statsFiles(diff) ==
    LET headers == SelectSeq(splitLines(diff), startsWithDiffGit) IN
    [i \in 1..Len(headers) |-> headers[i][2]]

\* .slice(0, MAX_FILES)
slice(seq, n) == SubSeq(seq, 1, IF Len(seq) < n THEN Len(seq) ELSE n)

PromptIdle ==
    /\ promptPc = "start"
    /\ diffIn = <<>>
    /\ maxTokens = 0
    /\ truncated = [diff |-> <<>>, omittedFiles |-> 0]
    /\ fileContents = <<>>
    /\ focus = <<>>
    /\ prompt = [template |-> "none"]

promptFrame ==
    <<convVars, registryVars, transportVars, hostVars, callVars, registryLog, streamVars,
      sessionVars, retryVars, budgetVars, watchVars, exitVars,
      handshakeVars, reviewVars, ownerVars>>

\* line 301: const truncated = truncateDiff(prefetched.diff)
TruncateDiff ==
    /\ promptPc = "start"
    /\ truncated' = truncateDiff(diffIn, maxTokens)
    /\ promptPc' = "truncated"
    /\ UNCHANGED <<diffIn, maxTokens, fileContents, focus, prompt, promptFrame>>

\* lines 318-325 and preloadFileContents: when nothing was omitted, read the
\* first max_files changed files; a file whose read fails is skipped
PreloadFileContents ==
    /\ promptPc = "truncated"
    /\ IF truncated.omittedFiles > 0
       THEN fileContents' = <<>>
       ELSE LET filesToLoad == slice(statsFiles(diffIn), MaxPreloadFiles) IN
            \E failed \in SUBSET {i \in 1..Len(filesToLoad) : TRUE} :
               fileContents' =
                   [i \in 1..(Len(filesToLoad) - Cardinality(failed)) |->
                       LET k == CHOOSE k \in 1..Len(filesToLoad) :
                                  /\ k \notin failed
                                  /\ Cardinality({m \in 1..k : m \notin failed}) = i
                       IN  [path |-> filesToLoad[k], content |-> <<"content", filesToLoad[k]>>]]
    /\ promptPc' = "preloaded"
    /\ UNCHANGED <<diffIn, maxTokens, truncated, focus, prompt, promptFrame>>

\* lines 335-340: the first message
BuildInitialPrompt ==
    /\ promptPc = "preloaded"
    /\ prompt' = buildInitialPrompt(truncated.diff, focus, fileContents)
    /\ promptPc' = "built"
    /\ UNCHANGED <<diffIn, maxTokens, truncated, fileContents, focus, promptFrame>>

PromptNext ==
    \/ TruncateDiff
    \/ PreloadFileContents
    \/ BuildInitialPrompt

----------------------------------------------------------------------------
\* The rate-limit retry loops: callWithRetry of the Anthropic adapter and of
\* the ConversationManager, fetchWithRetry of the OpenAI-compatible adapter

MAX_RETRIES == 3
RETRY_BASE_DELAY_MS == 30000

\* what the vendor API can reply to one request: success, 429 with a
\* retry-after header (absent, a number of seconds, or text that is no
\* number), or any other failure
Replies ==
    {[status |-> "ok", retryAfter |-> "none"], [status |-> "error", retryAfter |-> "none"]}
    \cup {[status |-> "429", retryAfter |-> h] : h \in {"none", "5", "soon"}}

\* the catch block retrying once more than MAX_RETRIES times
catchDecisionOneMore(n, reply) ==
    IF reply.status = "ok" THEN "return"
    ELSE IF reply.status # "429" \/ n > MAX_RETRIES THEN "throw" ELSE "retry"

\* callWithRetry: return, or in the catch block rethrow unless the error is a
\* rate limit and attempts remain
catchDecision(n, reply) ==
    IF reply.status = "ok" THEN "return"
    ELSE IF reply.status # "429" \/ n >= MAX_RETRIES THEN "throw" ELSE "retry"

\* fetchWithRetry: res.ok returns, a 429 with attempts remaining waits and
\* continues, anything else throws
fetchDecision(n, reply) ==
    IF reply.status = "ok" THEN "return"
    ELSE IF reply.status = "429" /\ n < MAX_RETRIES THEN "retry" ELSE "throw"

decision(who, n, reply) ==
    IF who = "openai" THEN fetchDecision(n, reply) ELSE catchDecision(n, reply)

\* delaySec > 0 ? delaySec * 1000 : RETRY_BASE_DELAY_MS * 2 ** attempt, with
\* delaySec = retryAfter ? Number.parseInt(retryAfter, 10) : 0 (NaN > 0 is false)
delayMs(n, retryAfter) ==
    IF retryAfter = "5" THEN 5 * 1000 ELSE RETRY_BASE_DELAY_MS * 2 ^ n

RetryIdle ==
    /\ adapter = "none"
    /\ retryPc = "idle"
    /\ attempt = 0
    /\ attemptsMade = 0
    /\ replyLog = <<>>
    /\ delays = <<>>

retryFrame ==
    <<convVars, registryVars, transportVars, hostVars, callVars, registryLog, streamVars,
      sessionVars, promptVars, budgetVars, watchVars, exitVars,
      handshakeVars, reviewVars, ownerVars>>

\* the call enters the loop: attempt = 0, the first request is sent
RetryCall ==
    /\ retryPc = "idle"
    /\ attempt' = 0
    /\ attemptsMade' = attemptsMade + 1
    /\ retryPc' = "calling"
    /\ UNCHANGED <<adapter, replyLog, delays, retryFrame>>

\* the vendor API replies to the request in flight
RetryReply ==
    /\ retryPc = "calling"
    /\ \E reply \in Replies :
          LET d == decision(adapter, attempt, reply) IN
          /\ replyLog' = Append(replyLog, reply)
          /\ retryPc' = CASE d = "return" -> "returned"
                          [] d = "throw" -> "threw"
                          [] OTHER -> "waiting"
          /\ delays' = IF d = "retry"
                       THEN Append(delays, delayMs(attempt, reply.retryAfter))
                       ELSE delays
    /\ UNCHANGED <<adapter, attempt, attemptsMade, retryFrame>>

\* the backoff timer fires: attempt++, and the loop sends the next request
\* while attempt <= MAX_RETRIES, else it throws 'Exhausted retries'
RetryBackoffElapsed ==
    /\ retryPc = "waiting"
    /\ attempt' = attempt + 1
    /\ IF attempt + 1 <= MAX_RETRIES
       THEN /\ attemptsMade' = attemptsMade + 1
            /\ retryPc' = "calling"
       ELSE /\ retryPc' = "threw"
            /\ UNCHANGED attemptsMade
    /\ UNCHANGED <<adapter, replyLog, delays, retryFrame>>

RetryNext ==
    \/ RetryCall
    \/ RetryReply
    \/ RetryBackoffElapsed

----------------------------------------------------------------------------
\* The token budget of MCPHost (addTokenUsage and its two getters)

\* the ceiling every host is constructed with
DEFAULT_TOKEN_BUDGET == 100000
tokenBudget == DEFAULT_TOKEN_BUDGET

\* the lengths of the texts given to addTokenUsage: empty, short, and tool
\* responses that bring the counter next to the 20% mark and past the ceiling
BudgetTextLengths == {0, 1, 5, 79996, 80000, 319997, 400004}

\* addTokenUsage() is called at most this many times
MaxUsageCalls == 3

\* Math.max(a, b)
max(a, b) == IF a >= b THEN a ELSE b

\* getTokenBudgetRemaining() without the floor
getTokenBudgetRemainingNoFloor(used) == tokenBudget - used

\* getTokenBudgetRemaining() of a host whose counter is used
getTokenBudgetRemaining(used) == max(0, tokenBudget - used)

\* isTokenBudgetLow(): remaining < tokenBudget * 0.2; the product of the
\* ceiling 100000 and the double 0.2 is exactly 20000, written here as
\* tokenBudget * 2 / 10 on both sides
isTokenBudgetLow(used) == 10 * getTokenBudgetRemaining(used) < 2 * tokenBudget

BudgetIdle ==
    /\ budgetCalls = 0
    /\ budgetQueried = FALSE
    /\ budgetRemaining = 0
    /\ budgetLow = FALSE

budgetFrame ==
    <<convVars, registryVars, transportVars, hostVars, callHistory, registryLog,
      streamVars, sessionVars, promptVars, retryVars, watchVars, exitVars,
      handshakeVars, reviewVars, ownerVars>>

\* addTokenUsage(text)
BudgetAddTokenUsage ==
    /\ budgetCalls < MaxUsageCalls
    /\ \E len \in BudgetTextLengths : tokensUsed' = tokensUsed + tokensOf(len)
    /\ budgetCalls' = budgetCalls + 1
    /\ budgetQueried' = FALSE
    /\ UNCHANGED <<budgetRemaining, budgetLow, budgetFrame>>

\* the caller reads getTokenBudgetRemaining() and isTokenBudgetLow()
BudgetQuery ==
    /\ ~budgetQueried
    /\ budgetRemaining' = getTokenBudgetRemaining(tokensUsed)
    /\ budgetLow' = isTokenBudgetLow(tokensUsed)
    /\ budgetQueried' = TRUE
    /\ UNCHANGED <<tokensUsed, budgetCalls, budgetFrame>>

\* shutdown(): the counter starts again from zero
BudgetShutdown ==
    /\ tokensUsed > 0
    /\ tokensUsed' = 0
    /\ budgetQueried' = FALSE
    /\ UNCHANGED <<budgetCalls, budgetRemaining, budgetLow, budgetFrame>>

BudgetNext ==
    \/ BudgetAddTokenUsage
    \/ BudgetQuery
    \/ BudgetShutdown

----------------------------------------------------------------------------
\* Watch mode (createReviewer.watch) and the repository it polls

\* commits are numbered in the order they become HEAD; 0 is the commit that
\* is HEAD when watch() starts; at most this many commits land afterwards
MaxCommits == 3

\* how one review of the loop can end
ReviewOutcomes == {"reviewed", "cached", "failed"}

\* getLatestCommitHash(): the hash of HEAD
getLatestCommitHash == headHash

\* the range the loop reviews for a hash: hash~1 .. hash
rangeOf(hash) == [from |-> hash - 1, to |-> hash]

\* the commits whose changes the diff of a range holds
commitsIn(range) == (range.from + 1)..range.to

\* the commits that were the subject of a review so far
reviewedCommits == UNION {commitsIn(reviewLog[i].range) : i \in 1..Len(reviewLog)}

WatchIdle ==
    /\ headHash = 0
    /\ landed = {}
    /\ running = FALSE
    /\ watchPc = "none"
    /\ lastReviewedHash = 0
    /\ hashAfterDebounce = 0
    /\ reviewLog = <<>>

watchFrame ==
    <<convVars, registryVars, transportVars, hostVars, callVars, registryLog,
      streamVars, sessionVars, promptVars, retryVars, budgetVars, exitVars,
      handshakeVars, reviewVars, ownerVars>>

\* somebody commits: HEAD moves to a new commit
Commit ==
    /\ watchPc \in {"poll", "debounce", "reviewing"}
    /\ headHash < MaxCommits
    /\ headHash' = headHash + 1
    /\ landed' = IF running THEN landed \cup {headHash + 1} ELSE landed
    /\ UNCHANGED <<running, watchPc, lastReviewedHash, hashAfterDebounce, reviewLog,
                   watchFrame>>

\* SIGINT: cleanup()
Sigint ==
    /\ watchPc \in {"poll", "debounce", "reviewing"}
    /\ running
    /\ running' = FALSE
    /\ UNCHANGED <<headHash, landed, watchPc, lastReviewedHash, hashAfterDebounce,
                   reviewLog, watchFrame>>

\* sleep(WATCH_POLL_INTERVAL_MS) is over: read HEAD, compare with the last
\* reviewed hash
WatchPollElapsed ==
    /\ watchPc = "poll"
    /\ watchPc' = IF ~running THEN "stopped"
                  ELSE IF getLatestCommitHash # lastReviewedHash THEN "debounce"
                  ELSE "poll"
    /\ UNCHANGED <<headHash, landed, running, lastReviewedHash, hashAfterDebounce,
                   reviewLog, watchFrame>>

\* sleep(WATCH_DEBOUNCE_MS) is over: read HEAD again and start the review of
\* that one commit
WatchDebounceElapsed ==
    /\ watchPc = "debounce"
    /\ IF ~running
          THEN /\ watchPc' = "stopped"
               /\ UNCHANGED hashAfterDebounce
          ELSE /\ hashAfterDebounce' = getLatestCommitHash
               /\ watchPc' = "reviewing"
    /\ UNCHANGED <<headHash, landed, running, lastReviewedHash, reviewLog, watchFrame>>

\* the review of rangeOf(hashAfterDebounce) ends (rendered, served from the
\* cache, or failed and logged); the hash is recorded and the loop goes on
WatchReviewSettled ==
    /\ watchPc = "reviewing"
    /\ \E outcome \in ReviewOutcomes :
          reviewLog' = Append(reviewLog, [range |-> rangeOf(hashAfterDebounce),
                                          outcome |-> outcome])
    /\ lastReviewedHash' = hashAfterDebounce
    /\ watchPc' = IF running THEN "poll" ELSE "stopped"
    /\ UNCHANGED <<headHash, landed, running, hashAfterDebounce, watchFrame>>

WatchNext ==
    \/ Commit
    \/ Sigint
    \/ WatchPollElapsed
    \/ WatchDebounceElapsed
    \/ WatchReviewSettled

----------------------------------------------------------------------------
\* The handshake of MCPHost.initialize with every tool server, message by
\* message, and the tools/call requests of ToolRegistry.callTool

\* callTool() is invoked at most this many times during and after the handshake
MaxHandshakeCalls == 1

send(method) == [dir |-> "send", method |-> method, ok |-> TRUE]
recv(method, ok) == [dir |-> "recv", method |-> method, ok |-> ok]

\* a callback that does not await the initialize request before it notifies
onStartResolvedNoAwait(log) ==
    log \o <<send("initialize"), send("notifications/initialized")>>

\* transport.start() resolved: transport.request('initialize', ...) is sent
onStartResolved(log) == Append(log, send("initialize"))

\* the initialize request resolved: transport.notify('notifications/initialized')
\* and then registerServer, which sends tools/list
onInitializeAnswered(log) ==
    log \o <<send("notifications/initialized"), send("tools/list")>>

\* the names callTool is asked for: one tool of every server, and a name that
\* nobody lists
HandshakeToolNames == {toolsOf(s)[1] : s \in TOOL_SERVERS} \cup {"does_not_exist"}

HandshakeIdle ==
    /\ hsPc = [s \in TOOL_SERVERS |-> "idle"]
    /\ wireLog = [s \in TOOL_SERVERS |-> <<>>]
    /\ hsCalls = 0

handshakeFrame ==
    <<convVars, transportVars, hostVars, callVars, registryLog, streamVars, sessionVars,
      promptVars, retryVars, budgetVars, watchVars, exitVars, reviewVars, ownerVars>>

\* initialize(): every callback creates its transport and calls start()
HsInitialize ==
    /\ \A s \in TOOL_SERVERS : hsPc[s] = "idle"
    /\ hsPc' = [s \in TOOL_SERVERS |-> "starting"]
    /\ UNCHANGED <<wireLog, hsCalls, registryVars, handshakeFrame>>

\* await transport.start() settles
HsStartSettled ==
    /\ \E s \in TOOL_SERVERS, child \in {"alive", "spawnFailed"} :
          /\ hsPc[s] = "starting"
          /\ hsPc' = [hsPc EXCEPT ![s] = startOutcome(child)]
          /\ wireLog' = IF startOutcome(child) = "initialize"
                        THEN [wireLog EXCEPT ![s] = onStartResolved(@)]
                        ELSE wireLog
    /\ UNCHANGED <<hsCalls, registryVars, handshakeFrame>>

\* await transport.request('initialize') settles: by a result, by an error
\* response, or by the timeout with nothing received
HsInitializeSettled ==
    /\ \E s \in TOOL_SERVERS, outcome \in {"result", "error", "timeout"} :
          /\ hsPc[s] = "initialize"
          /\ hsPc' = [hsPc EXCEPT ![s] = IF outcome = "result" THEN "tools/list"
                                          ELSE "initialize failed"]
          /\ wireLog' =
                [wireLog EXCEPT ![s] =
                    CASE outcome = "result" ->
                            onInitializeAnswered(Append(@, recv("initialize", TRUE)))
                      [] outcome = "error" -> Append(@, recv("initialize", FALSE))
                      [] OTHER -> @]
    /\ UNCHANGED <<hsCalls, registryVars, handshakeFrame>>

\* the tools/list request of registerServer settles; with a result the server
\* is recorded and its tools are indexed
HsToolsListSettled ==
    /\ \E s \in TOOL_SERVERS, ok \in BOOLEAN :
          /\ hsPc[s] = "tools/list"
          /\ hsPc' = [hsPc EXCEPT ![s] = IF ok THEN "done" ELSE "tools/list failed"]
          /\ wireLog' = [wireLog EXCEPT ![s] = Append(@, recv("tools/list", ok))]
          /\ servers' = IF ok THEN registerServer(servers, s, s, toolsOf(s)) ELSE servers
          /\ toolToServer' = IF ok THEN indexTools(toolToServer, toolsOf(s), s)
                             ELSE toolToServer
    /\ UNCHANGED <<hsCalls, handshakeFrame>>

\* callTool(name) at any moment of the handshake: it sends tools/call to
\* the server the index names, or returns without sending
HsCallTool ==
    /\ \E s \in TOOL_SERVERS : hsPc[s] # "idle"
    /\ hsCalls < MaxHandshakeCalls
    /\ hsCalls' = hsCalls + 1
    /\ \E name \in HandshakeToolNames :
          LET r == callToolRoute(servers, toolToServer, name) IN
          wireLog' = IF r.kind = "request"
                     THEN [wireLog EXCEPT ![r.server] = Append(@, send("tools/call"))]
                     ELSE wireLog
    /\ UNCHANGED <<hsPc, registryVars, handshakeFrame>>

HandshakeNext ==
    \/ HsInitialize
    \/ HsStartSettled
    \/ HsInitializeSettled
    \/ HsToolsListSettled
    \/ HsCallTool

----------------------------------------------------------------------------
\* Reviewer.review: one call, from Promise.all to the finally block

\* the promises given to Promise.all: host.initialize(), the diff, the stats
MemberNames == {"initialize", "diff", "stats"}

\* host.initialize() settles every server with allSettled and resolves; the
\* two git calls resolve or reject
memberOutcomes(m) ==
    IF m = "initialize" THEN {"fulfilled"} ELSE {"fulfilled", "rejected"}

\* the git call behind a member
fetchOf(m, type) ==
    CASE m = "diff" -> IF type = "staged" THEN "getStagedDiff" ELSE "getDiff"
      [] m = "stats" -> IF type = "staged" THEN "getStagedDiffStats" ELSE "getDiffStats"
      [] OTHER -> "host.initialize"

\* Promise.all: rejected by the first member that rejects, fulfilled when
\* every member is
promiseAll(ms) ==
    IF \E m \in MemberNames : ms[m] = "rejected" THEN "rejected"
    ELSE IF \A m \in MemberNames : ms[m] = "fulfilled" THEN "fulfilled"
    ELSE "pending"

ReviewIdle ==
    /\ reviewPc = "idle"
    /\ rangeType = "none"
    /\ cacheHolds = FALSE
    /\ members = [m \in MemberNames |-> "none"]
    /\ initStarted = FALSE
    /\ shutdownCalls = 0
    /\ reviewError = "none"

reviewFrame ==
    <<convVars, registryVars, transportVars, hostVars, callVars, registryLog,
      streamVars, sessionVars, promptVars, retryVars, budgetVars, watchVars, exitVars,
      handshakeVars, ownerVars>>

\* review(range) up to the await on Promise.all: the three calls are made
ReviewCall ==
    /\ reviewPc = "idle"
    /\ reviewPc' = "fetching"
    /\ members' = [m \in MemberNames |-> "pending"]
    /\ initStarted' = TRUE
    /\ UNCHANGED <<rangeType, cacheHolds, shutdownCalls, reviewError, reviewFrame>>

\* one of the three promises settles.  The await on Promise.all stands before
\* the try block: a rejection leaves review() at once, past catch and finally,
\* while the other members go on
MemberSettled ==
    /\ reviewPc \in {"fetching", "threw"}
    /\ \E m \in MemberNames :
          /\ members[m] = "pending"
          /\ \E o \in memberOutcomes(m) :
                LET ms == [members EXCEPT ![m] = o] IN
                /\ members' = ms
                /\ IF reviewPc = "fetching" /\ promiseAll(ms) = "rejected"
                   THEN /\ reviewPc' = "threw"
                        /\ reviewError' = fetchOf(m, rangeType)
                   ELSE /\ reviewPc' = IF reviewPc = "fetching"
                                          /\ promiseAll(ms) = "fulfilled"
                                       THEN "try" ELSE reviewPc
                        /\ UNCHANGED reviewError
    /\ UNCHANGED <<rangeType, cacheHolds, initStarted, shutdownCalls, reviewFrame>>

\* getCachedReview inside the try block: a hit returns the cached review, a
\* failure is rethrown by the catch block; both go through the finally block
CacheLookup ==
    /\ reviewPc = "try"
    /\ \E failed \in BOOLEAN :
          IF failed
          THEN reviewPc' = "finally" /\ reviewError' = "getCachedReview"
          ELSE /\ reviewPc' = IF cacheHolds THEN "finally" ELSE "runReview"
               /\ UNCHANGED reviewError
    /\ UNCHANGED <<rangeType, cacheHolds, members, initStarted, shutdownCalls,
                   reviewFrame>>

\* await host.runReview(...) settles
RunReviewSettled ==
    /\ reviewPc = "runReview"
    /\ \E ok \in BOOLEAN :
          IF ok
          THEN reviewPc' = "cacheReview" /\ UNCHANGED reviewError
          ELSE reviewPc' = "finally" /\ reviewError' = "host.runReview"
    /\ UNCHANGED <<rangeType, cacheHolds, members, initStarted, shutdownCalls,
                   reviewFrame>>

\* await cacheReview(...) settles; the review is rendered and returned
CacheReviewSettled ==
    /\ reviewPc = "cacheReview"
    /\ \E ok \in BOOLEAN :
          reviewError' = IF ok THEN reviewError ELSE "cacheReview"
    /\ reviewPc' = "finally"
    /\ UNCHANGED <<rangeType, cacheHolds, members, initStarted, shutdownCalls,
                   reviewFrame>>

\* finally { await host.shutdown() }: the call is made
FinallyShutdown ==
    /\ reviewPc = "finally"
    /\ shutdownCalls' = shutdownCalls + 1
    /\ reviewPc' = "shutdown"
    /\ UNCHANGED <<rangeType, cacheHolds, members, initStarted, reviewError, reviewFrame>>

\* host.shutdown() resolved: review() returns, or rethrows what the catch
\* block threw
ShutdownSettled ==
    /\ reviewPc = "shutdown"
    /\ reviewPc' = IF reviewError = "none" THEN "returned" ELSE "threw"
    /\ UNCHANGED <<rangeType, cacheHolds, members, initStarted, shutdownCalls,
                   reviewError, reviewFrame>>

ReviewNext ==
    \/ ReviewCall
    \/ MemberSettled
    \/ CacheLookup
    \/ RunReviewSettled
    \/ CacheReviewSettled
    \/ FinallyShutdown
    \/ ShutdownSettled

----------------------------------------------------------------------------
\* Properties of runReview (checked under SpecConv)

\* the assistant message and the tool-result message of round r
assistantOf(r) == messages[2 * r]
resultsOf(r) == messages[2 * r + 1]
roundHasResults(r) == Len(messages) >= 2 * r + 1

\* C1: runReview ends within MAX_TOOL_ROUNDS + 1 provider calls, whatever the
\* provider answers, also when every response has stop reason tool_use.
C1_AtMostCapPlusOneCalls == turnNumber <= MAX_TOOL_ROUNDS + 1

\* C2: no callTool is dispatched in a round beyond the round cap: every
\* dispatched tool call belongs to round 1..MAX_TOOL_ROUNDS.
C2_NoDispatchBeyondCap ==
    \A i \in 1..Len(callToolLog) : callToolLog[i].round <= MAX_TOOL_ROUNDS

\* C3: provider call MAX_TOOL_ROUNDS + 1 carries no tool catalog, and every
\* earlier call carries the whole catalog of getAvailableTools().
C3_CatalogOmittedAtCapPlusOne ==
    \A n \in 1..Len(requests) :
        /\ n <= MAX_TOOL_ROUNDS =>
              /\ requests[n].tools = getAvailableTools(servers)
              /\ requests[n].tools = <<"get_diff", "manual_tool">>
        /\ n = MAX_TOOL_ROUNDS + 1 => requests[n].tools = NoTools

C3_Witness ==
    /\ Len(requests) = MAX_TOOL_ROUNDS + 1
    /\ requests[MAX_TOOL_ROUNDS + 1].tools = NoTools

\* C4 as stated: no failing tool call makes runReview throw.
C4_FailingCallNeverThrows == thrown # "ToolServerError"

\* C4 amended: a call that fails at the application level (unknown tool, or a
\* response flagged isError) is captured as an error-flagged tool result, the
\* round's user message holds one result per invocation, and runReview throws
\* a ToolServerError only when a call's transport request was rejected.
C4_ApplicationFailureCaptured ==
    /\ thrown = "ToolServerError" =>
          \E i \in 1..Len(toolTasks) : toolTasks[i].status = "rejected"
    /\ \A i \in 1..Len(toolTasks) :
          (toolTasks[i].status = "fulfilled" /\ assistantOf(toolRounds).content[i].name = "does_not_exist")
             => toolTasks[i].isError = "true"
    /\ (pc = "awaitingResponse" /\ toolRounds >= 1) =>
          /\ Len(resultsOf(toolRounds).content) = Len(assistantOf(toolRounds).content)
          /\ \A i \in 1..Len(toolTasks) :
                toolTasks[i].isError = "true"
                   <=> resultsOf(toolRounds).content[i].is_error = "true"

C4_Witness ==
    /\ pc = "awaitingResponse"
    /\ toolRounds >= 1
    /\ \E i, j \in 1..Len(toolTasks) :
          /\ resultsOf(toolRounds).content[i].is_error = "true"
          /\ assistantOf(toolRounds).content[i].name = "get_diff"
          /\ resultsOf(toolRounds).content[j].is_error # "true"

\* C5: a model turn with K tool_use blocks makes exactly K callTool
\* invocations, and the round's user message holds exactly K tool_result
\* blocks, the i-th with the id of the i-th block, whatever the settle order.
C5_OneResultPerInvocationInOrder ==
    \A r \in 1..toolRounds :
        LET blocks == assistantOf(r).content
            invoked == SelectSeq(callToolLog, LAMBDA c : c.round = r)
        IN  /\ Len(invoked) = Len(blocks)
            /\ \A i \in 1..Len(blocks) :
                  invoked[i].id = blocks[i].id /\ invoked[i].name = blocks[i].name
            /\ roundHasResults(r) =>
                  /\ resultsOf(r).role = "user"
                  /\ Len(resultsOf(r).content) = Len(blocks)
                  /\ \A i \in 1..Len(blocks) :
                        /\ resultsOf(r).content[i].type = "tool_result"
                        /\ resultsOf(r).content[i].tool_use_id = blocks[i].id

C5_Witness ==
    /\ pc = "awaitingResponse"
    /\ toolRounds >= 1
    /\ Len(completionOrder) >= 2
    /\ completionOrder[1] > completionOrder[2]
    /\ Len(resultsOf(toolRounds).content) = Len(completionOrder)

----------------------------------------------------------------------------
\* Properties of StdioTransport (checked under SpecTransport)

answered(c) == calls[c].reason \in {"result", "error response"}

\* C6: with several requests outstanding and their responses delivered in any
\* order, a call is resolved or rejected only by the response that carries the
\* id allocated to that call.
C6_ResponseCorrelatedById ==
    \A c \in 1..Len(calls) :
        answered(c) => calls[c].respId = calls[c].id /\ calls[c].respFor = c

C6_Witness ==
    \E i, j \in 1..Len(settleOrder) :
        /\ i < j
        /\ settleOrder[i] > settleOrder[j]
        /\ answered(settleOrder[i])
        /\ answered(settleOrder[j])

\* C7: a request whose timer fires while it is pending is rejected with a
\* timeout error and leaves the pending map; a response for its id delivered
\* later settles nothing, emits no event and leaves every pending entry alone.
C7_TimeoutThenLateResponseDropped ==
    /\ [](\A c \in timedOut :
            /\ calls[c].outcome = "rejected"
            /\ calls[c].reason = "timeout"
            /\ calls[c].settleCalls = 1
            /\ calls[c].id \notin DOMAIN pendingRequests)
    /\ [][\A msg \in wire :
            (/\ wire' = wire \ {msg}
             /\ msg.kind = "response"
             /\ \E c \in timedOut : calls[c].id = msg.id)
               => UNCHANGED <<calls, pendingRequests, events, settleOrder>>]_vars

C7_Witness ==
    \E c \in timedOut :
        /\ c \in dropped
        /\ calls[c].reason = "timeout"
        /\ pendingRequests # EmptyMap

\* C8: stop() empties the pending map, and a request that was pending then is
\* never settled afterwards, neither by a late response nor by its timer.
C8_StopAbandonsPending ==
    /\ [](\A c \in DOMAIN abandoned :
            /\ calls[c].settleCalls = abandoned[c]
            /\ calls[c].id \notin DOMAIN pendingRequests)
    /\ [][(abandoned' # abandoned \/ (process = "live" /\ process' = "null"))
             => pendingRequests' = EmptyMap]_vars

C8_Witness ==
    \E c, d \in DOMAIN abandoned :
        /\ calls[c].outcome = "pending"
        /\ c \in dropped
        /\ calls[d].outcome = "pending"
        /\ calls[d].sent
        /\ \A t \in timers : t.call # d

\* C9: a timeout leaves the transport usable: the timer touches neither the
\* process, the id counter nor the other pending entries, and a request made
\* after a timeout has an id no other call has and is resolved by the response
\* the child wrote for it.
C9_RequestAfterTimeoutCompletes ==
    /\ [](\A c \in 1..Len(calls) :
            calls[c].afterTimeout =>
               /\ \A d \in 1..Len(calls) : d # c => calls[d].id # calls[c].id
               /\ answered(c) => calls[c].respFor = c /\ calls[c].respId = calls[c].id)
    /\ [][\A t \in timers :
            timers' = timers \ {t} =>
               /\ process' = process
               /\ messageId' = messageId
               /\ childInbox' = childInbox
               /\ \A k \in DOMAIN pendingRequests \ {t.id} :
                     k \in DOMAIN pendingRequests' /\ pendingRequests'[k] = pendingRequests[k]]_vars
    /\ [][\A msg \in wire :
            (/\ wire' = wire \ {msg}
             /\ msg.kind = "response"
             /\ ~msg.error
             /\ msg.id \in DOMAIN pendingRequests
             /\ calls[pendingRequests[msg.id]].afterTimeout)
               => /\ pendingRequests[msg.id] = msg.forCall
                  /\ calls'[msg.forCall].outcome = "resolved"]_vars

C9_Witness ==
    \E c \in 1..Len(calls) :
        /\ calls[c].afterTimeout
        /\ calls[c].outcome = "resolved"
        /\ calls[c].respFor = c
        /\ timedOut # {}

----------------------------------------------------------------------------
\* Properties of MCPHost (checked under SpecHost)

\* C10: once a shutdown() that began after initialize() had completed has
\* returned, no tool-server child that initialize() spawned is still alive,
\* also not one whose handshake or capability discovery failed.
C10_ShutdownTerminatesEveryChild ==
    (shutdownCompleted /\ ~overlapped) =>
        /\ \A s \in TOOL_SERVERS : childProcess[s] # "alive"
        /\ leaked = 0

\* C11: whatever subset of the servers fails, and at whatever stage (process
\* start, initialize handshake, tools/list discovery), an initialize() that no
\* shutdown() overlaps completes with the host initialized, and the available
\* tools are then exactly the capabilities of the servers that did not fail.
C11_InitializeToleratesFailures ==
    [][(initPc = "running" /\ initPc' = "idle" /\ ~overlapped) =>
          LET ok == {s \in TOOL_SERVERS : serverTask[s] = "done"}
              tools == getAvailableTools(servers')
          IN  /\ initialized'
              /\ \A s \in TOOL_SERVERS : serverTask[s] \in TaskSettled
              /\ toolSet(tools) = UNION {toolSet(toolsOf(s)) : s \in ok}
              /\ Len(tools) = Cardinality(toolSet(tools))]_vars

\* C11 witness: initialize() has completed with one server that failed to
\* spawn, two that spawned and failed later, and the fourth one's tools
\* available.
C11_Witness ==
    /\ initialized /\ initPc = "idle" /\ ~overlapped /\ shutPc = "idle"
    /\ initCalls = 1
    /\ \E a, b, c, d \in TOOL_SERVERS :
          /\ b # c
          /\ childProcess[a] = "spawnFailed"
          /\ childProcess[b] = "alive" /\ b \notin DOMAIN servers
          /\ childProcess[c] = "alive" /\ c \notin DOMAIN servers
          /\ DOMAIN servers = {d}
          /\ getAvailableTools(servers) = toolsOf(d)

\* C12: initialize() spawns every configured server in the call itself (none
\* waits for another), a server's failure changes no other server's task or
\* child, and the host is marked initialized only when every server's outcome
\* has settled.
C12_ServersStartConcurrently ==
    /\ [][initCalls' = initCalls + 1 =>
            \A s \in TOOL_SERVERS :
               /\ serverTask'[s] = "starting"
               /\ childProcess'[s] \in {"alive", "spawnFailed"}]_vars
    /\ [][\A s \in TOOL_SERVERS :
            (serverTask'[s] # serverTask[s] /\ serverTask'[s] \in TaskFailed) =>
               \A t \in TOOL_SERVERS \ {s} :
                  serverTask'[t] = serverTask[t] /\ childProcess'[t] = childProcess[t]]_vars
    /\ [][(~initialized /\ initialized') =>
            \A s \in TOOL_SERVERS : serverTask[s] \in TaskSettled]_vars

\* C12 witness: during one initialize() a server has failed, another has
\* finished discovery and a third is still waiting for its start() to settle.
C12_Witness ==
    /\ initPc = "running" /\ ~overlapped /\ ~initialized
    /\ \E a, b, c \in TOOL_SERVERS :
          /\ serverTask[a] \in TaskFailed
          /\ serverTask[b] = "done"
          /\ serverTask[c] = "starting"


------------------------------------------------------------\* C13: a call of initialize() on an initialized host spawns no transport,
\* starts no handshake and leaves the registry as it is; more generally no
\* step taken while the host stays initialized changes any of these.
C13_InitializeIdempotent ==
    /\ [][(lastCall' = "initialize (no-op)" /\ lastCall # "initialize (no-op)") =>
            /\ initialized
            /\ UNCHANGED <<hostVars, registryVars, tokensUsed>>]_vars
    /\ [][(initialized /\ initialized') =>
            UNCHANGED <<childProcess, serverTask, servers, toolToServer, transports,
                        leaked, initCalls>>]_vars

\* C13 witness: initialize() has just returned early on a host whose first
\* initialize() registered at least one server.
C13_Witness ==
    /\ lastCall = "initialize (no-op)"
    /\ initialized
    /\ initCalls = 1
    /\ DOMAIN servers # {}

\* C14: a runReview() call on a host that is not initialized (no initialize()
\* yet, or a shutdown() with no initialize() after it) fails with the
\* 'not initialized' error and does not invoke the Conversation Manager.
C14_RunReviewRequiresInitialize ==
    /\ (initCalls = 0 \/ shutdownCompleted) => ~initialized
    /\ (lastCall = "runReview" /\ ~initialized) =>
          (hostThrown = "MCPHost not initialized" /\ ~delegated)

\* C14 witness: runReview() was called after initialize() and shutdown().
C14_Witness ==
    /\ lastCall = "runReview"
    /\ shutdownCompleted
    /\ initCalls >= 1
    /\ hostThrown = "MCPHost not initialized"

\* C15: after every shutdown() the host is uninitialized, its used-token
\* counter is zero and the registry is empty; the call does not fail, and a
\* second shutdown() right after it changes nothing.
C15_ShutdownRepeatable ==
    /\ [](lastCall \in {"shutdown", "shutdown (again)"} =>
            /\ ~initialized
            /\ tokensUsed = 0
            /\ transports = <<>>
            /\ servers = EmptyMap /\ toolToServer = EmptyMap
            /\ getAvailableTools(servers) = <<>>
            /\ hostThrown = "none")
    /\ [][lastCall' = "shutdown (again)" =>
            UNCHANGED <<hostVars, registryVars, tokensUsed, hostThrown>>]_vars

\* C15 witness: shutdown() was called twice in a row on a host that had
\* registered servers and counted tokens before.
C15_Witness ==
    /\ lastCall = "shutdown (again)"
    /\ initCalls >= 1
    /\ \E s \in TOOL_SERVERS : childProcess[s] = "killed"

\* two callTool invocations with the same tool name and arguments
sameRequest(i, j) ==
    /\ regCalls[i].name = regCalls[j].name
    /\ regCalls[i].arguments = regCalls[j].arguments

\* the invocation has returned a result that is not error-flagged
returnedOk(i) ==
    regCalls[i].outcome = "result" /\ regCalls[i].isError # "true"

C17_UnknownToolIsErrorResult ==
    \A i \in 1..Len(regCalls) :
       regCalls[i].owners = {} =>
          /\ regCalls[i].outcome = "result"
          /\ regCalls[i].isError = "true"
          /\ regCalls[i].content = "Unknown tool"
          /\ ~regCalls[i].sent

\* C17 witness: does_not_exist was called on a registry that holds a server.
C17_Witness ==
    /\ DOMAIN servers # {}
    /\ \E i \in 1..Len(regCalls) :
          /\ regCalls[i].name = "does_not_exist"
          /\ ~regCalls[i].cleared
          /\ regCalls[i].isError = "true"

\* C18: when the transport request of a callTool fails, the call throws a
\* ToolServerError that names the server owning the tool; the failure never
\* becomes a returned result.
C18_TransportFailureThrows ==
    \A i \in 1..Len(regCalls) :
       regCalls[i].transport = "reject" =>
          /\ regCalls[i].outcome = "ToolServerError"
          /\ regCalls[i].owners = {regCalls[i].serverName}

\* C18 witness: the request of a read_file call was rejected while its
\* server was registered.
C18_Witness ==
    \E i \in 1..Len(regCalls) :
       /\ regCalls[i].name = "read_file"
       /\ regCalls[i].transport = "reject"
       /\ ~regCalls[i].cleared
       /\ regCalls[i].serverName = "file-context"

\* C19: right after ToolRegistry.shutdown(), stop() has been invoked on every
\* transport that was registered, whichever stops failed, and the registry is
\* empty: no tool is available and every tool name is unknown to callTool.
C19_ShutdownStopsAllAndClears ==
    registryOp = "shutdown" =>
       /\ stopCalls = stopTargets
       /\ servers = EmptyMap /\ toolToServer = EmptyMap
       /\ getAvailableTools(servers) = <<>>
       /\ \A name \in RegToolNames :
             LET r == callToolRoute(servers, toolToServer, name)
             IN  r.kind = "result" /\ r.isError = "true" /\ r.content = "Unknown tool"

\* C19 witness: a shutdown() of a registry with two transports in which one
\* stop() failed and the other did not.
C19_Witness ==
    /\ registryOp = "shutdown"
    /\ stopFailures # {}
    /\ stopTargets \ stopFailures # {}
    /\ stopCalls = stopTargets

\* C20: start() never resolves for a child that could not be spawned: once
\* its callbacks have run its promise is rejected, whether spawn() threw or
\* reported the failure through the 'error' event.
C20_StartFailsWhenSpawnFails ==
    spawnResult \in {"error", "threw"} =>
       /\ startPromise # "resolved"
       /\ startQueue = {} => startPromise = "rejected"

\* C20 witness: the spawn failed with an 'error' event, the handler rejected
\* the promise and the 100 ms timer has fired after it.
C20_Witness ==
    /\ spawnResult = "error"
    /\ startQueue = {}
    /\ startPromise = "rejected"

\* the complete non-blank lines of a character stream, in order
RECURSIVE completeLines(_)
completeLines(stream) ==
    LET i == indexOfNewline(stream) IN
    IF i = 0 THEN <<>>
    ELSE LET line == SubSeq(stream, 1, i - 1)
             rest == completeLines(SubSeq(stream, i + 1, Len(stream)))
         IN  IF trim(line) = <<>> THEN rest ELSE <<line>> \o rest

malformedHandled == {i \in DOMAIN handled : JSONparse(handled[i]) = SyntaxError}

\* C21: a malformed JSON line received from the child surfaces as an error
\* event and not as a crash: once such a line has been handled the transport
\* is alive, no exception has left the data listener, every malformed line
\* was delivered as an 'error' event, every complete non-blank line received
\* so far (the lines after it in the same chunk included) has been handed to
\* handleMessage, and a chunk holding only malformed lines leaves the pending
\* requests as they were.
C21_MalformedLineIsErrorEvent ==
    /\ [](malformedHandled # {} =>
             /\ ~uncaught
             /\ process = "live"
             /\ errorEvents >= Cardinality(malformedHandled)
             /\ handled = completeLines(received))
    /\ [][(/\ Len(handled') > Len(handled)
           /\ \A i \in (Len(handled) + 1)..Len(handled') :
                 JSONparse(handled'[i]) = SyntaxError)
          => pendingRequests' = pendingRequests]_vars

\* C22: output of the child on its error stream does not terminate the
\* connection: the step that handles it leaves the process handle, the input
\* buffer and the pending requests unchanged and no exception leaves the
\* listener, so that responses arriving afterwards are still read.
C22_StderrOutputNotFatal ==
    [][stderrSeen' > stderrSeen =>
          /\ process' = process
          /\ buffer' = buffer
          /\ pendingRequests' = pendingRequests
          /\ ~uncaught']_vars

\* the final text holds a fenced block that parses to a JSON value whose
\* properties can be read
hasParseableReview(resp) ==
    /\ resp.hasText
    /\ fencedJson(resp.text) # <<>>
    /\ parseFields(fencedJson(resp.text)).critical # "threw"

\* C23: when the final response (stop reason other than tool_use) holds no
\* parseable fenced JSON review, runReview has returned, without throwing, a
\* result with empty critical and positive arrays, exactly one suggestion and
\* confidence low.
C23_FallbackResultNeverThrows ==
    (finalResponse.stop_reason # "none" /\ ~hasParseableReview(finalResponse))
    => /\ sessionPc = "done"
       /\ sessionThrown = "none"
       /\ reviewResult.returned
       /\ reviewResult.critical = <<>>
       /\ reviewResult.positive = <<>>
       /\ Len(reviewResult.suggestions) = 1
       /\ reviewResult.confidence = "low"

RECURSIVE sumInput(_)
sumInput(log) == IF log = <<>> THEN 0 ELSE Head(log).input_tokens + sumInput(Tail(log))
RECURSIVE sumOutput(_)
sumOutput(log) == IF log = <<>> THEN 0 ELSE Head(log).output_tokens + sumOutput(Tail(log))

\* C24: the token usage attached to the returned result is the sum of the
\* input and of the output token counts reported by every provider response
\* of the session, one report per provider call, each counted once.
C24_TokenUsageIsSumOfAllCalls ==
    sessionPc = "done" =>
        /\ Len(usageLog) = sessionTurn
        /\ reviewResult.tokenUsage.inputTokens = sumInput(usageLog)
        /\ reviewResult.tokenUsage.outputTokens = sumOutput(usageLog)

\* C24 witness: a session of three provider calls (two tool-use rounds and the
\* final round) whose responses reported different usages has returned.
C24_Witness ==
    /\ sessionPc = "done"
    /\ sessionTurn = 3
    /\ Len(usageLog) = 3
    /\ usageLog[1] # usageLog[2]
    /\ usageLog[2] = usageLog[3]
    /\ reviewResult.tokenUsage = [inputTokens |-> 5, outputTokens |-> 7]

\* C25: whenever the diff was not truncated, the contents of the pre-loaded
\* changed files are inlined into the initial user prompt, whatever the focus
\* areas are.
C25_PreloadedFilesInlined ==
    (promptPc = "built" /\ truncated.omittedFiles = 0) =>
        \A i \in 1..Len(fileContents) :
            \E j \in 1..Len(prompt.fileSection) : prompt.fileSection[j] = fileContents[i]

\* The file sections of a diff by position: a section starts at the first
\* character and at every "diff --git " that starts a line.
sectionStarts(d) ==
    {i \in 1..Len(d) : i = 1 \/ (d[i] = DiffGit /\ d[i - 1] = Newline)}
numSections(d) == Cardinality(sectionStarts(d))
\* the position of the last character of the k-th section
sectionEnd(d, k) ==
    LET later == {i \in sectionStarts(d) :
                     Cardinality({j \in sectionStarts(d) : j < i}) >= k}
    IN  IF later = {} THEN Len(d)
        ELSE (CHOOSE i \in later : \A j \in later : i <= j) - 1
\* the first line of the k-th section
sectionHeader(d, k) ==
    LET start == IF k = 1 THEN 1 ELSE sectionEnd(d, k - 1) + 1
        tail == SubSeq(d, start, Len(d))
    IN  Head(splitLines(tail))
budgetChars == maxTokens * 4

\* C26: truncateDiff never returns an empty diff for a non-empty input, and
\* its result starts with the whole first file section of the input, also
\* when that section alone exceeds the budget.
C26_FirstSectionAlwaysKept ==
    (promptPc # "start" /\ diffIn # <<>>) =>
        /\ truncated.diff # <<>>
        /\ Len(truncated.diff) >= sectionEnd(diffIn, 1)
        /\ SubSeq(truncated.diff, 1, sectionEnd(diffIn, 1))
              = SubSeq(diffIn, 1, sectionEnd(diffIn, 1))

\* C26 witness: truncateDiff was applied to a diff of several sections whose
\* first section alone exceeds the budget.
C26_Witness ==
    /\ promptPc # "start"
    /\ numSections(diffIn) >= 2
    /\ sectionEnd(diffIn, 1) > budgetChars
    /\ truncated.omittedFiles = numSections(diffIn) - 1

\* C27: for an over-budget diff the result starts with the longest prefix of
\* whole sections whose cumulative size fits the budget (one section when
\* not even the first fits), omittedFiles is the number of the other
\* sections, and the lines of the appended notice that name a file are the
\* header lines of exactly the omitted sections, in order.
C27_GreedyPrefixAndNotice ==
    (promptPc # "start" /\ Len(diffIn) > budgetChars) =>
        LET n == numSections(diffIn)
            fitting == {k \in 1..n : k = 1 \/ sectionEnd(diffIn, k) <= budgetChars}
            kept == CHOOSE k \in fitting : \A m \in fitting : m <= k
            end == sectionEnd(diffIn, kept)
        IN  /\ truncated.omittedFiles = n - kept
            /\ Len(truncated.diff) >= end
            /\ SubSeq(truncated.diff, 1, end) = SubSeq(diffIn, 1, end)
            /\ SelectSeq(splitLines(SubSeq(truncated.diff, end + 1, Len(truncated.diff))),
                         startsWithDiffGit)
                  = [j \in 1..(n - kept) |-> sectionHeader(diffIn, kept + j)]

\* C27 witness: an over-budget diff of three sections of which two were kept
\* and one was omitted.
C27_Witness ==
    /\ promptPc # "start"
    /\ Len(diffIn) > budgetChars
    /\ numSections(diffIn) = 3
    /\ truncated.omittedFiles = 1

\* C28: rate-limit retry is bounded and 429-only: one provider call sends at
\* most 1 + MAX_RETRIES requests, a reply that is not a 429 ends the call at
\* once (it is the last reply, and the call has returned for a success and
\* thrown for a failure), and a 429 reply to request 1 + MAX_RETRIES makes the
\* call throw.
C28_RetryBoundedAnd429Only ==
    LET n == Len(replyLog) IN
    /\ attemptsMade <= 1 + MAX_RETRIES
    /\ n <= attemptsMade
    /\ \A i \in 1..n :
          replyLog[i].status # "429" =>
              /\ i = n
              /\ attemptsMade = n
              /\ retryPc = IF replyLog[i].status = "ok" THEN "returned" ELSE "threw"
    /\ (n = 1 + MAX_RETRIES /\ replyLog[n].status = "429") => retryPc = "threw"

\* C28 witness: four requests were sent, each was answered with a 429, and
\* the call has thrown.
C28_Witness ==
    /\ retryPc = "threw"
    /\ attemptsMade = 1 + MAX_RETRIES
    /\ Len(replyLog) = 1 + MAX_RETRIES
    /\ \A i \in 1..Len(replyLog) : replyLog[i].status = "429"
    /\ Len(delays) = MAX_RETRIES

\* C29: after any sequence of addTokenUsage calls getTokenBudgetRemaining()
\* is max(0, ceiling - tokens used) and never negative, and isTokenBudgetLow()
\* is true exactly when that remaining value is below 20% of the ceiling.
C29_RemainingFlooredAndLowBelowFifth ==
    budgetQueried =>
        /\ budgetRemaining >= 0
        /\ tokensUsed <= DEFAULT_TOKEN_BUDGET
              => budgetRemaining = DEFAULT_TOKEN_BUDGET - tokensUsed
        /\ tokensUsed > DEFAULT_TOKEN_BUDGET => budgetRemaining = 0
        /\ budgetLow <=> (5 * budgetRemaining < DEFAULT_TOKEN_BUDGET)

\* usage went past the ceiling in several calls and the getters were read
C29_Witness ==
    /\ budgetQueried
    /\ budgetCalls >= 2
    /\ tokensUsed > DEFAULT_TOKEN_BUDGET
    /\ budgetRemaining = 0
    /\ budgetLow

\* C30: in watch mode every commit that becomes HEAD while the watcher runs
\* is eventually the subject of a review, including the commits that land
\* while an earlier commit is being debounced or reviewed (a watcher that was
\* told to stop owes nothing more).
C30_EveryCommitEventuallyReviewed ==
    \A c \in 1..MaxCommits :
        (c \in landed) ~> (c \in reviewedCommits \/ ~running)

C39_NotStartedRequestLeavesNoEntry ==
    \A c \in 1..Len(calls) :
        ~calls[c].sent =>
            /\ calls[c].outcome = "rejected"
            /\ calls[c].reason = "Transport not started"
            /\ calls[c].id \notin DOMAIN pendingRequests

\* call c was issued on a transport with a live process and is not settled
pendingOnStarted(c) ==
    IF c <= Len(calls) THEN calls[c].sent /\ calls[c].outcome = "pending" ELSE FALSE

\* call c was resolved by its response, rejected by its error response or
\* rejected by its timer
settledAsClaimed(c) ==
    IF c <= Len(calls)
    THEN \/ calls[c].outcome = "resolved" /\ calls[c].reason = "result"
         \/ calls[c].outcome = "rejected"
               /\ calls[c].reason \in {"error response", "timeout"}
    ELSE FALSE

RECURSIVE trailingFragment(_)
trailingFragment(stream) ==
    LET i == indexOfNewline(stream) IN
    IF i = 0 THEN stream ELSE trailingFragment(SubSeq(stream, i + 1, Len(stream)))

\* C34: however the byte stream of the child is split into chunks, handleData
\* has handed to message handling exactly the complete non-blank lines
\* received so far, once each and in stream order, and the buffer holds the
\* trailing partial fragment.
C34_OneHandlingPerCompleteLine ==
    /\ handled = completeLines(received)
    /\ buffer = trailingFragment(received)

\* the ids named by the blocks of one message, in order
idsOfUses(content) == [i \in 1..Len(content) |-> content[i].id]
idsOfResults(content) == [i \in 1..Len(content) |-> content[i].tool_use_id]

\* C33: the message list is append-only: it only grows at its end, the first
\* provider call is sent the prompt alone, and the list sent on call n + 1 is
\* the list sent on call n followed by exactly one assistant message (the
\* content of the response to call n) and exactly one user message holding
\* the tool results of that round.
C33_MessagesAppendOnly ==
    /\ [](Len(requests) >= 1 =>
             /\ Len(requests[1].messages) = 1
             /\ requests[1].messages[1].prompt)
    /\ [](\A n \in 1..(Len(requests) - 1) :
            LET sent == requests[n].messages
                next == requests[n + 1].messages
                k == Len(sent)
            IN  /\ Len(next) = k + 2
                /\ SubSeq(next, 1, k) = sent
                /\ next[k + 1].role = "assistant"
                /\ next[k + 2].role = "user"
                /\ ~next[k + 2].prompt
                /\ idsOfResults(next[k + 2].content) = idsOfUses(next[k + 1].content))
    /\ [][/\ Len(messages') >= Len(messages)
          /\ SubSeq(messages', 1, Len(messages)) = messages]_vars
    /\ [][(requests' # requests /\ Len(requests) >= 1) =>
             /\ response.stop_reason = "tool_use"
             /\ messages'[Len(messages)].content = response.blocks]_vars

\* three provider calls were made, each of the two rounds with tool results
C33_Witness ==
    /\ Len(requests) >= 3
    /\ Len(requests[3].messages) = 5
    /\ requests[3].messages[2].content # <<>>
    /\ requests[3].messages[4].content # <<>>
    /\ Len(requests[3].messages[5].content) >= 1

\* position i of the log of server s is preceded by the event ev
precededBy(s, i, ev) == \E j \in 1..(i - 1) : wireLog[s][j] = ev

\* C32: for each tool server the handshake is ordered: the
\* notifications/initialized notification is sent only after the initialize
\* request was sent and answered with a result, tools/list only after that
\* notification, and tools/call only to a server whose tools/list was
\* answered with a result.
C32_HandshakeOrdered ==
    \A s \in TOOL_SERVERS :
    \A i \in 1..Len(wireLog[s]) :
        LET ev == wireLog[s][i] IN
        /\ ev = send("notifications/initialized")
              => /\ precededBy(s, i, send("initialize"))
                 /\ precededBy(s, i, recv("initialize", TRUE))
        /\ ev = recv("initialize", TRUE) => precededBy(s, i, send("initialize"))
        /\ ev = send("tools/list")
              => precededBy(s, i, send("notifications/initialized"))
        /\ ev = send("tools/call") => precededBy(s, i, recv("tools/list", TRUE))

\* one server went through the whole handshake and was sent a tools/call,
\* another one failed at its initialize request and was sent nothing more
C32_Witness ==
    \E s, f \in TOOL_SERVERS :
        /\ wireLog[s] = <<send("initialize"), recv("initialize", TRUE),
                          send("notifications/initialized"), send("tools/list"),
                          recv("tools/list", TRUE), send("tools/call")>>
        /\ wireLog[f] = <<send("initialize"), recv("initialize", FALSE)>>
        /\ hsPc[f] = "initialize failed"

\* C38: every invocation of review() that has started host.initialize() ends
\* with host.shutdown() having been called, on every path: success, cache
\* hit, review failure and failure of the diff or stats fetch.
C38_ReviewAlwaysShutsDown ==
    (initStarted /\ reviewPc \in {"returned", "threw"}) => shutdownCalls >= 1

----------------------------------------------------------------------------
\* ToolRegistry: the owner of a tool name, the listing and the index

\* the server names and tool names the callers of the registry use
OwnerServers == {"conventions", "manual"}
OwnerTools == {"read_file", "manual_tool"}
CalledTools == OwnerTools \cup {"does_not_exist"}

\* the tools/list responses a server may give
ToolLists == {<<>>, <<"read_file">>, <<"read_file", "manual_tool">>}

\* registerToolManually pushes to a record's capabilities only below this length
MaxCapabilities == 2

NoDispatch == [name |-> "none", kind |-> "none", server |-> "none", latest |-> "none"]

OwnerIdle ==
    /\ lastRegistrant = EmptyMap
    /\ dispatch = NoDispatch

ownerFrame ==
    <<convVars, transportVars, hostVars, callVars, registryLog, streamVars, sessionVars,
      promptVars, retryVars, budgetVars, watchVars, exitVars, handshakeVars, reviewVars>>

\* the history of registrations: every name of the list now has this registrant
registeredBy(latest, names, server) ==
    [k \in DOMAIN latest \cup names |-> IF k \in names THEN server ELSE latest[k]]

\* await registerServer(name, transport), the server answering tools/list
\* with any of the lists; the name may have a record already
RegisterAnyServer ==
    /\ \E s \in RegistryServers, capabilities \in ToolLists :
          /\ servers' = registerServer(servers, s, s, capabilities)
          /\ toolToServer' = indexTools(toolToServer, capabilities, s)
          /\ lastRegistrant' = registeredBy(lastRegistrant, toolSet(capabilities), s)
    /\ dispatch' = NoDispatch
    /\ UNCHANGED ownerFrame

\* registerToolManually(serverName, capability) with any server name and any
\* tool name
RegisterAnyToolManually ==
    /\ \E s \in OwnerServers, capability \in OwnerTools :
          /\ s \in DOMAIN servers => Len(servers[s].capabilities) < MaxCapabilities
          /\ toolToServer' = mapSet(toolToServer, capability, s)
          /\ servers' = registerToolManually(servers, s, capability)
          /\ lastRegistrant' = registeredBy(lastRegistrant, {capability}, s)
    /\ dispatch' = NoDispatch
    /\ UNCHANGED ownerFrame

\* callTool(request) up to its return or its transport.request: the server
\* whose record it used, if any
RouteCall ==
    /\ \E name \in CalledTools :
          LET r == callToolRoute(servers, toolToServer, name) IN
          dispatch' =
             [name |-> name,
              kind |-> IF r.kind = "request" THEN "request" ELSE r.content,
              server |-> IF r.kind = "request" THEN r.server
                         ELSE IF r.content = "placeholder" THEN toolToServer[name]
                         ELSE "none",
              latest |-> IF name \in DOMAIN lastRegistrant THEN lastRegistrant[name]
                         ELSE "none"]
    /\ UNCHANGED <<servers, toolToServer, lastRegistrant, ownerFrame>>

\* await shutdown(): both maps are cleared
ClearRegistry ==
    /\ servers # EmptyMap
    /\ servers' = EmptyMap
    /\ toolToServer' = EmptyMap
    /\ lastRegistrant' = EmptyMap
    /\ dispatch' = NoDispatch
    /\ UNCHANGED ownerFrame

OwnerNext ==
    \/ RegisterAnyServer
    \/ RegisterAnyToolManually
    \/ RouteCall
    \/ ClearRegistry

\* C35: callTool for a name uses the server of the latest registration of
\* that name (registerServer or registerToolManually) and no other server; a
\* name nobody registered since the last shutdown reaches no server
C35_LastRegistrationWins ==
    /\ \A name \in DOMAIN lastRegistrant :
          /\ name \in DOMAIN toolToServer
          /\ toolToServer[name] = lastRegistrant[name]
    /\ dispatch.name # "none" =>
          IF dispatch.latest = "none"
          THEN dispatch.server = "none" /\ dispatch.kind = "Unknown tool"
          ELSE /\ dispatch.server = dispatch.latest
               /\ dispatch.kind \in {"request", "placeholder"}

\* a call was sent to the second server that registered the name, while the
\* first one still lists it
C35_Witness ==
    /\ dispatch.kind = "request"
    /\ dispatch.name \in DOMAIN toolToServer
    /\ dispatch.server = toolToServer[dispatch.name]
    /\ Cardinality(ownersOf(servers, dispatch.name)) >= 2

\* callTool can route the name: it sends a request or returns the placeholder
routable(name) ==
    LET r == callToolRoute(servers, toolToServer, name) IN
    IF r.kind = "request" THEN TRUE ELSE r.content = "placeholder"

\* C40: getAvailableTools() lists no name twice, lists exactly the names
\* callTool can route, and every listed capability is held by the server
\* callTool routes its name to
C40_ListingAgreesWithIndex ==
    LET tools == getAvailableTools(servers) IN
    /\ \A i, j \in 1..Len(tools) : i # j => tools[i] # tools[j]
    /\ toolSet(tools) = {name \in CalledTools : routable(name)}
    /\ \A n \in DOMAIN servers : \A i \in 1..Len(servers[n].capabilities) :
          /\ servers[n].capabilities[i] \in DOMAIN toolToServer
          /\ toolToServer[servers[n].capabilities[i]] = n

----------------------------------------------------------------------------
\* MCPHost: a shutdown() that ran while initialize() was in flight

\* C37: once a shutdown() that overlapped an initialize() has completed, and
\* until initialize() is called again, the host is uninitialized, the
\* registry is empty and no child process is alive
C37_ShutdownDuringInitializeIsFinal ==
    (shutdownCompleted /\ overlapped) =>
        /\ ~initialized
        /\ servers = EmptyMap
        /\ toolToServer = EmptyMap
        /\ \A s \in TOOL_SERVERS : childProcess[s] # "alive"

----------------
\* Specifications

\* a review session over a registry that is already populated
ConvInit ==
    /\ ConvIdle
    /\ servers = ReadyServers
    /\ toolToServer = ReadyIndex
    /\ TransportIdle
    /\ HostIdle
    /\ RegistryIdle
    /\ StreamIdle
    /\ SessionIdle
    /\ PromptIdle
    /\ RetryIdle
    /\ BudgetIdle
    /\ WatchIdle
    /\ childExited = FALSE
    /\ HandshakeIdle
    /\ ReviewIdle
    /\ OwnerIdle

SpecConv == ConvInit /\ [][ConvNext]_vars

\* one transport from its construction on
TransportInit ==
    /\ TransportIdle
    /\ ConvIdle
    /\ servers = EmptyMap
    /\ toolToServer = EmptyMap
    /\ HostIdle
    /\ RegistryIdle
    /\ StreamIdle
    /\ SessionIdle
    /\ PromptIdle
    /\ RetryIdle
    /\ BudgetIdle
    /\ WatchIdle
    /\ childExited = FALSE
    /\ HandshakeIdle
    /\ ReviewIdle
    /\ OwnerIdle

SpecTransport ==
    TransportInit /\ [][TransportNext]_vars

\* a started transport with a child that may exit
TransportExitInit ==
    /\ TransportStarted
    /\ childExited = FALSE
    /\ ConvIdle
    /\ servers = EmptyMap
    /\ toolToServer = EmptyMap
    /\ HostIdle
    /\ RegistryIdle
    /\ StreamIdle
    /\ SessionIdle
    /\ PromptIdle
    /\ RetryIdle
    /\ BudgetIdle
    /\ WatchIdle
    /\ HandshakeIdle
    /\ ReviewIdle
    /\ OwnerIdle

SpecTransportExit == TransportExitInit /\ [][TransportExitNext]_vars

\* the same transport when the timers of the event loop fire: every
\* setTimeout callback of request() runs in the end
SpecTransportFair ==
    /\ TransportExitInit
    /\ [][TransportExitNext]_vars
    /\ WF_vars(Timeout)

\* one host from its construction on
HostInit ==
    /\ HostIdle
    /\ RegistryIdle
    /\ servers = EmptyMap
    /\ toolToServer = EmptyMap
    /\ ConvIdle
    /\ TransportIdle
    /\ StreamIdle
    /\ SessionIdle
    /\ PromptIdle
    /\ RetryIdle
    /\ BudgetIdle
    /\ WatchIdle
    /\ childExited = FALSE
    /\ HandshakeIdle
    /\ ReviewIdle
    /\ OwnerIdle

SpecHost == HostInit /\ [][HostNext]_vars

\* one host used by a caller that awaits every call
HostCallsInit ==
    /\ HostIdle
    /\ RegistryIdle
    /\ servers = EmptyMap
    /\ toolToServer = EmptyMap
    /\ ConvIdle
    /\ TransportIdle
    /\ StreamIdle
    /\ SessionIdle
    /\ PromptIdle
    /\ RetryIdle
    /\ BudgetIdle
    /\ WatchIdle
    /\ childExited = FALSE
    /\ HandshakeIdle
    /\ ReviewIdle
    /\ OwnerIdle

SpecHostCalls == HostCallsInit /\ [][HostCallsNext]_vars

\* one registry from its construction on
RegistryInit ==
    /\ RegistryIdle
    /\ servers = EmptyMap
    /\ toolToServer = EmptyMap
    /\ ConvIdle
    /\ TransportIdle
    /\ HostIdle
    /\ StreamIdle
    /\ SessionIdle
    /\ PromptIdle
    /\ RetryIdle
    /\ BudgetIdle
    /\ WatchIdle
    /\ childExited = FALSE
    /\ HandshakeIdle
    /\ ReviewIdle
    /\ OwnerIdle

SpecRegistry == RegistryInit /\ [][RegistryNext]_vars

\* one started transport, its child and the data the child writes; the owner
\* has registered no 'error' listener (MCPHost.initialize) or one (a caller
\* that observes the events)
StreamInit ==
    /\ TransportStarted
    /\ buffer = <<>>
    /\ stdoutPipe = <<>>
    /\ stderrPipe = 0
    /\ errorListeners \in {0, 1}
    /\ uncaught = FALSE
    /\ linesWritten = 0
    /\ received = <<>>
    /\ handled = <<>>
    /\ errorEvents = 0
    /\ stderrSeen = 0
    /\ ConvIdle
    /\ servers = EmptyMap
    /\ toolToServer = EmptyMap
    /\ HostIdle
    /\ RegistryIdle
    /\ SessionIdle
    /\ PromptIdle
    /\ RetryIdle
    /\ BudgetIdle
    /\ WatchIdle
    /\ childExited = FALSE
    /\ HandshakeIdle
    /\ ReviewIdle
    /\ OwnerIdle

SpecStream == StreamInit /\ [][StreamNext]_vars

\* one review session, seen at its provider calls
SessionInit ==
    /\ SessionIdle
    /\ ConvIdle
    /\ servers = EmptyMap
    /\ toolToServer = EmptyMap
    /\ TransportIdle
    /\ HostIdle
    /\ RegistryIdle
    /\ StreamIdle
    /\ PromptIdle
    /\ RetryIdle
    /\ BudgetIdle
    /\ WatchIdle
    /\ childExited = FALSE
    /\ HandshakeIdle
    /\ ReviewIdle
    /\ OwnerIdle

SpecSession == SessionInit /\ [][SessionNext]_vars

\* the first steps of one review, for a diff, a budget and a focus setting
PromptInit ==
    /\ promptPc = "start"
    /\ diffIn \in Diffs
    /\ maxTokens \in 0..MaxBudgetTokens
    /\ focus \in FocusConfigs
    /\ truncated = [diff |-> <<>>, omittedFiles |-> 0]
    /\ fileContents = <<>>
    /\ prompt = [template |-> "none"]
    /\ SessionIdle
    /\ ConvIdle
    /\ servers = EmptyMap
    /\ toolToServer = EmptyMap
    /\ TransportIdle
    /\ HostIdle
    /\ RegistryIdle
    /\ StreamIdle
    /\ RetryIdle
    /\ BudgetIdle
    /\ WatchIdle
    /\ childExited = FALSE
    /\ HandshakeIdle
    /\ ReviewIdle
    /\ OwnerIdle

SpecPrompt == PromptInit /\ [][PromptNext]_vars

\* one provider call made through one of the three retry loops
RetryInit ==
    /\ adapter \in {"anthropic", "openai", "conversation"}
    /\ retryPc = "idle"
    /\ attempt = 0
    /\ attemptsMade = 0
    /\ replyLog = <<>>
    /\ delays = <<>>
    /\ PromptIdle
    /\ SessionIdle
    /\ ConvIdle
    /\ servers = EmptyMap
    /\ toolToServer = EmptyMap
    /\ TransportIdle
    /\ HostIdle
    /\ RegistryIdle
    /\ StreamIdle
    /\ BudgetIdle
    /\ WatchIdle
    /\ childExited = FALSE
    /\ HandshakeIdle
    /\ ReviewIdle
    /\ OwnerIdle

SpecRetry == RetryInit /\ [][RetryNext]_vars

\* one host whose tool responses are counted against its budget
BudgetInit ==
    /\ BudgetIdle
    /\ RetryIdle
    /\ PromptIdle
    /\ SessionIdle
    /\ ConvIdle
    /\ servers = EmptyMap
    /\ toolToServer = EmptyMap
    /\ TransportIdle
    /\ HostIdle
    /\ RegistryIdle
    /\ StreamIdle
    /\ WatchIdle
    /\ childExited = FALSE
    /\ HandshakeIdle
    /\ ReviewIdle
    /\ OwnerIdle

SpecBudget == BudgetInit /\ [][BudgetNext]_vars

\* one host with an empty registry, before initialize()
HandshakeInit ==
    /\ HandshakeIdle
    /\ servers = EmptyMap
    /\ toolToServer = EmptyMap
    /\ ReviewIdle
    /\ OwnerIdle
    /\ childExited = FALSE
    /\ BudgetIdle
    /\ WatchIdle
    /\ RetryIdle
    /\ PromptIdle
    /\ SessionIdle
    /\ ConvIdle
    /\ TransportIdle
    /\ HostIdle
    /\ RegistryIdle
    /\ StreamIdle

SpecHandshake == HandshakeInit /\ [][HandshakeNext]_vars

\* one call of review() for a staged or a commit range, with or without a
\* cached review of its diff
ReviewInit ==
    /\ reviewPc = "idle"
    /\ rangeType \in {"staged", "range"}
    /\ cacheHolds \in BOOLEAN
    /\ members = [m \in MemberNames |-> "none"]
    /\ initStarted = FALSE
    /\ shutdownCalls = 0
    /\ reviewError = "none"
    /\ OwnerIdle
    /\ HandshakeIdle
    /\ servers = EmptyMap
    /\ toolToServer = EmptyMap
    /\ childExited = FALSE
    /\ BudgetIdle
    /\ WatchIdle
    /\ RetryIdle
    /\ PromptIdle
    /\ SessionIdle
    /\ ConvIdle
    /\ TransportIdle
    /\ HostIdle
    /\ RegistryIdle
    /\ StreamIdle

SpecReview == ReviewInit /\ [][ReviewNext]_vars

\* one watcher right after its first getLatestCommitHash()
WatchInit ==
    /\ headHash = 0
    /\ landed = {}
    /\ running = TRUE
    /\ watchPc = "poll"
    /\ lastReviewedHash = 0
    /\ hashAfterDebounce = 0
    /\ reviewLog = <<>>
    /\ BudgetIdle
    /\ RetryIdle
    /\ PromptIdle
    /\ SessionIdle
    /\ ConvIdle
    /\ servers = EmptyMap
    /\ toolToServer = EmptyMap
    /\ TransportIdle
    /\ HostIdle
    /\ RegistryIdle
    /\ StreamIdle
    /\ childExited = FALSE
    /\ HandshakeIdle
    /\ ReviewIdle
    /\ OwnerIdle

SpecWatch == WatchInit /\ [][WatchNext]_vars

\* the same watcher when its timers fire and every review comes to an end:
\* the two sleeps are setTimeout timers of the event loop, and a review ends
\* by returning or by throwing into the catch of the loop
SpecWatchFair ==
    /\ WatchInit
    /\ [][WatchNext]_vars
    /\ WF_vars(WatchPollElapsed)
    /\ WF_vars(WatchDebounceElapsed)
    /\ WF_vars(WatchReviewSettled)

OwnerInit ==
    /\ OwnerIdle
    /\ servers = EmptyMap
    /\ toolToServer = EmptyMap
    /\ ReviewIdle
    /\ HandshakeIdle
    /\ childExited = FALSE
    /\ BudgetIdle
    /\ WatchIdle
    /\ RetryIdle
    /\ PromptIdle
    /\ SessionIdle
    /\ ConvIdle
    /\ TransportIdle
    /\ HostIdle
    /\ RegistryIdle
    /\ StreamIdle

SpecOwner == OwnerInit /\ [][OwnerNext]_vars

====
